---- MODULE Spec2Model ----
(***************************************************************************)
(* A model of the overlord consensus engine's vote/QC store (the cabinet,  *)
(* src/src/cabinet.rs) with the message types of src/src/types.rs.         *)
(*                                                                         *)
(* Rust's Option<T> is a sequence of length at most one (<<>> is None,     *)
(* <<x>> is Some(x)); a HashMap / BTreeMap is a function whose DOMAIN is   *)
(* the set of keys present; a Vec is a sequence.                           *)
(***************************************************************************)
EXTENDS Integers, Sequences, FiniteSets, TLC

(***************************************************************************)
(* Bounds of the model.                                                    *)
(***************************************************************************)
\* Heights are 0..MaxHeight, rounds 0..MaxRound (Height and Round are u64).
MaxHeight == 1
MaxRound == 1
\* Voters (addresses) are 1..NumVoters.
NumVoters == 2
\* Block hashes are 0..MaxHash; 0 is the empty hash Hash::default().
MaxHash == 1
\* Weight is u32: MaxWeight stands for u32::MAX, scaled down so that sums
\* of a few votes reach and pass it. Weights are 0..MaxWeight and a sum
\* above MaxWeight overflows.
MaxWeight == 2
\* Signatures / aggregate signatures are 1..NumSigs.
NumSigs == 2
\* Number of Cabinet::insert calls in one behaviour.
MaxInserts == 2
\* Number of Cabinet::pop / Cabinet::remove_below calls in one behaviour.
MaxRemoves == 1

Heights == 0..MaxHeight
Rounds == 0..MaxRound
Voters == 1..NumVoters
Hashes == 0..MaxHash
Weights == 0..MaxWeight
Sigs == 1..NumSigs

None == <<>>
Some(x) == <<x>>

VoteTypes == {"PreVote", "PreCommit", "Choke"}
SignedVoteKinds == {"SignedPreVote", "SignedPreCommit"}
QCKinds == {"PreVoteQC", "PreCommitQC", "ChokeQC"}
CapsuleKinds == {"SignedProposal", "SignedChoke"} \cup SignedVoteKinds \cup QCKinds

(***************************************************************************)
(* types.rs: messages.  A field the cabinet never reads but compares (the  *)
(* derived PartialEq compares every field) is kept as one value:           *)
(* `signature` for the signed messages (for a proposal it also stands for  *)
(* block, lock and proposer; for a choke for `from`), `aggregates` for the *)
(* QCs (address_bitmap and signature).                                     *)
(***************************************************************************)
SignedVote(h, r, hash, w, v, s) ==
    [height |-> h, round |-> r, block_hash |-> hash,
     vote_weight |-> w, voter |-> v, signature |-> s]

SignedChoke(h, r, w, v, s) ==
    [height |-> h, round |-> r, vote_weight |-> w, voter |-> v, signature |-> s]

SignedProposal(h, r, hash, s) ==
    [height |-> h, round |-> r, block_hash |-> hash, signature |-> s]

VoteQC(h, r, hash, a) ==
    [height |-> h, round |-> r, block_hash |-> hash, aggregates |-> a]

ChokeQC(h, r, a) ==
    [height |-> h, round |-> r, aggregates |-> a]

Capsule(k, m) == [kind |-> k, msg |-> m]

(***************************************************************************)
(* types.rs: VoteType::default and CumWeight.                              *)
(***************************************************************************)
VoteTypeDefault == "PreVote"

CumWeightNew(cum_weight, vote_type, round, block_hash) ==
    [cum_weight |-> cum_weight, vote_type |-> vote_type,
     round |-> round, block_hash |-> block_hash]

\* #[derive(Default)] on CumWeight
CumWeightDefault == CumWeightNew(0, VoteTypeDefault, 0, None)

(***************************************************************************)
(* u32 addition.  The debug build panics on overflow ("attempt to add with *)
(* overflow"), the release build wraps.                                    *)
(***************************************************************************)
Overflows(a, b) == a + b > MaxWeight
WrappingAdd(a, b) == (a + b) % (MaxWeight + 1)

(***************************************************************************)
(* cabinet.rs: Grid, Drawer, Cabinet.                                      *)
(***************************************************************************)
EmptyMap == [x \in {} |-> 0]

MapInsert(map, k, v) == [x \in (DOMAIN map) \cup {k} |-> IF x = k THEN v ELSE map[x]]

MapGet(map, k) == IF k \in DOMAIN map THEN Some(map[k]) ELSE None

\* #[derive(Default)] on Grid
GridDefault ==
    [signed_proposal            |-> None,
     signed_pre_votes           |-> EmptyMap,
     pre_vote_sets              |-> EmptyMap,
     pre_vote_vote_weights      |-> EmptyMap,
     pre_vote_max_vote_weight   |-> CumWeightDefault,
     signed_pre_commits         |-> EmptyMap,
     pre_commit_sets            |-> EmptyMap,
     pre_commit_vote_weights    |-> EmptyMap,
     pre_commit_max_vote_weight |-> CumWeightDefault,
     signed_chokes              |-> EmptyMap,
     choke_vote_weight          |-> CumWeightDefault,
     pre_vote_qc                |-> None,
     pre_commit_qc              |-> None,
     choke_qc                   |-> None]

\* #[derive(Default)] on Drawer
DrawerDefault ==
    [collectors                 |-> EmptyMap,
     pre_vote_max_vote_weight   |-> CumWeightDefault,
     pre_commit_max_vote_weight |-> CumWeightDefault,
     choke_max_vote_weight      |-> CumWeightDefault]

(***************************************************************************)
(* Results of Cabinet::insert: Ok(None), Ok(Some(cum_weight)),             *)
(* Err(AlreadyExists(data)), Err(InsertDiff(exist, data)); "Panic" is the  *)
(* debug build's abort on u32 overflow.                                    *)
(***************************************************************************)
Ok(opt) == [tag |-> "Ok", value |-> opt]
ErrAlreadyExists(data) == [tag |-> "AlreadyExists", value |-> <<data>>]
ErrInsertDiff(exist, data) == [tag |-> "InsertDiff", value |-> <<exist, data>>]
Panicked == [tag |-> "Panic", value |-> <<>>]

IsOk(res) == res.tag = "Ok"
IsErr(res) == res.tag \in {"AlreadyExists", "InsertDiff"}

\* A check_exist that lets a differing message through.
check_exist_overwrite(opt, check_data) ==
    IF opt # None /\ opt[1] = check_data THEN "AlreadyExists" ELSE "Ok"

\* A check_exist that reports every occupied slot as a differing message.
check_exist_always_diff(opt, check_data) ==
    IF opt # None THEN "InsertDiff" ELSE "Ok"

\* check_exist: Ok(()) is "Ok", otherwise the error to return.
check_exist(opt, check_data) ==
    IF opt # None
    THEN IF opt[1] = check_data
         THEN "AlreadyExists"
         ELSE "InsertDiff"
    ELSE "Ok"

\* update_vote_weight_map: the map after the call, the returned weight, and
\* whether `cum_weight += *vote_weight` overflowed.
update_vote_weight_map(vote_weight_map, hash, vote_weight) ==
    LET found == hash \in DOMAIN vote_weight_map
        cum_weight == IF found
                      THEN WrappingAdd(vote_weight, vote_weight_map[hash])
                      ELSE vote_weight
    IN  [map        |-> MapInsert(vote_weight_map, hash, cum_weight),
         cum_weight |-> cum_weight,
         overflow   |-> found /\ Overflows(vote_weight, vote_weight_map[hash])]

\* An update_max_vote_weight that also replaces the maximum on a tie.
update_max_vote_weight_on_tie(max_weight, cum_weight) ==
    IF max_weight.cum_weight <= cum_weight.cum_weight
    THEN cum_weight
    ELSE max_weight

\* update_max_vote_weight: the value of *max_weight after the call.
update_max_vote_weight(max_weight, cum_weight) ==
    IF max_weight.cum_weight < cum_weight.cum_weight
    THEN cum_weight
    ELSE max_weight

\* A push that starts the entry of `hash` afresh with every vote.
PushToSet_replace(sets, hash, vote) ==
    MapInsert(sets, hash, <<vote>>)

\* Vec::push on the entry of `hash`, created empty when absent.
PushToSet(sets, hash, vote) ==
    MapInsert(sets, hash, Append(IF hash \in DOMAIN sets THEN sets[hash] ELSE <<>>, vote))

\* An insert_signed_proposal that reports the grid's pre-vote maximum.
insert_signed_proposal_reports(grid, signed_proposal) ==
    IF check_exist(grid.signed_proposal, signed_proposal) = "Ok"
    THEN [grid |-> [grid EXCEPT !.signed_proposal = Some(signed_proposal)],
          res  |-> Ok(Some(grid.pre_vote_max_vote_weight))]
    ELSE [grid |-> grid, res |-> ErrAlreadyExists(Capsule("SignedProposal", signed_proposal))]


(***************************************************************************)
(* Grid's insert functions.  Each gives the grid after the call and the    *)
(* call's result; `checked` says whether the build checks overflow.        *)
(***************************************************************************)
insert_signed_proposal(grid, signed_proposal) ==
    LET exist == check_exist(grid.signed_proposal, signed_proposal)
    IN  IF exist = "AlreadyExists"
        THEN [grid |-> grid, res |-> ErrAlreadyExists(Capsule("SignedProposal", signed_proposal))]
        ELSE IF exist = "InsertDiff"
        THEN [grid |-> grid,
              res  |-> ErrInsertDiff(Capsule("SignedProposal", grid.signed_proposal[1]),
                                     Capsule("SignedProposal", signed_proposal))]
        ELSE [grid |-> [grid EXCEPT !.signed_proposal = Some(signed_proposal)],
              res  |-> Ok(None)]

\* An insert_signed_pre_vote that adds the weight before it checks the slot.
insert_signed_pre_vote_weight_first(grid, signed_pre_vote, checked) ==
    LET voter == signed_pre_vote.voter
        exist == check_exist(MapGet(grid.signed_pre_votes, voter), signed_pre_vote)
        hash  == signed_pre_vote.block_hash
        upd   == update_vote_weight_map(grid.pre_vote_vote_weights, hash,
                                        signed_pre_vote.vote_weight)
        cum_weight == CumWeightNew(upd.cum_weight, "PreVote",
                                   signed_pre_vote.round, Some(hash))
        max   == update_max_vote_weight(grid.pre_vote_max_vote_weight, cum_weight)
        g1    == [grid EXCEPT !.pre_vote_vote_weights = upd.map,
                              !.pre_vote_max_vote_weight = max]
    IN  IF checked /\ upd.overflow
        THEN [grid |-> grid, res |-> Panicked]
        ELSE IF exist = "AlreadyExists"
        THEN [grid |-> g1, res |-> ErrAlreadyExists(Capsule("SignedPreVote", signed_pre_vote))]
        ELSE IF exist = "InsertDiff"
        THEN [grid |-> g1,
              res  |-> ErrInsertDiff(Capsule("SignedPreVote", grid.signed_pre_votes[voter]),
                                     Capsule("SignedPreVote", signed_pre_vote))]
        ELSE [grid |-> [g1 EXCEPT
                          !.signed_pre_votes = MapInsert(@, voter, signed_pre_vote),
                          !.pre_vote_sets = PushToSet(@, hash, signed_pre_vote)],
              res  |-> Ok(Some(max))]

insert_signed_pre_vote(grid, signed_pre_vote, checked) ==
    LET voter == signed_pre_vote.voter
        exist == check_exist(MapGet(grid.signed_pre_votes, voter), signed_pre_vote)
        hash  == signed_pre_vote.block_hash
        upd   == update_vote_weight_map(grid.pre_vote_vote_weights, hash,
                                        signed_pre_vote.vote_weight)
        cum_weight == CumWeightNew(upd.cum_weight, "PreVote",
                                   signed_pre_vote.round, Some(hash))
        max   == update_max_vote_weight(grid.pre_vote_max_vote_weight, cum_weight)
    IN  IF exist = "AlreadyExists"
        THEN [grid |-> grid, res |-> ErrAlreadyExists(Capsule("SignedPreVote", signed_pre_vote))]
        ELSE IF exist = "InsertDiff"
        THEN [grid |-> grid,
              res  |-> ErrInsertDiff(Capsule("SignedPreVote", grid.signed_pre_votes[voter]),
                                     Capsule("SignedPreVote", signed_pre_vote))]
        ELSE IF checked /\ upd.overflow
        THEN [grid |-> grid, res |-> Panicked]
        ELSE [grid |-> [grid EXCEPT
                          !.pre_vote_vote_weights = upd.map,
                          !.pre_vote_max_vote_weight = max,
                          !.signed_pre_votes = MapInsert(@, voter, signed_pre_vote),
                          !.pre_vote_sets = PushToSet(@, hash, signed_pre_vote)],
              res  |-> Ok(Some(max))]

\* An insert_signed_pre_commit that stores without looking for the voter's
\* earlier pre-commit.
insert_signed_pre_commit_unchecked(grid, signed_pre_commit, checked) ==
    LET voter == signed_pre_commit.voter
        hash  == signed_pre_commit.block_hash
        upd   == update_vote_weight_map(grid.pre_commit_vote_weights, hash,
                                        signed_pre_commit.vote_weight)
        cum_weight == CumWeightNew(upd.cum_weight, "PreCommit",
                                   signed_pre_commit.round, Some(hash))
        max   == update_max_vote_weight(grid.pre_commit_max_vote_weight, cum_weight)
    IN  IF checked /\ upd.overflow
        THEN [grid |-> grid, res |-> Panicked]
        ELSE [grid |-> [grid EXCEPT
                          !.pre_commit_vote_weights = upd.map,
                          !.pre_commit_max_vote_weight = max,
                          !.signed_pre_commits = MapInsert(@, voter, signed_pre_commit),
                          !.pre_commit_sets = PushToSet(@, hash, signed_pre_commit)],
              res  |-> Ok(Some(max))]

insert_signed_pre_commit(grid, signed_pre_commit, checked) ==
    LET voter == signed_pre_commit.voter
        exist == check_exist(MapGet(grid.signed_pre_commits, voter), signed_pre_commit)
        hash  == signed_pre_commit.block_hash
        upd   == update_vote_weight_map(grid.pre_commit_vote_weights, hash,
                                        signed_pre_commit.vote_weight)
        cum_weight == CumWeightNew(upd.cum_weight, "PreCommit",
                                   signed_pre_commit.round, Some(hash))
        max   == update_max_vote_weight(grid.pre_commit_max_vote_weight, cum_weight)
    IN  IF exist = "AlreadyExists"
        THEN [grid |-> grid, res |-> ErrAlreadyExists(Capsule("SignedPreCommit", signed_pre_commit))]
        ELSE IF exist = "InsertDiff"
        THEN [grid |-> grid,
              res  |-> ErrInsertDiff(Capsule("SignedPreCommit", grid.signed_pre_commits[voter]),
                                     Capsule("SignedPreCommit", signed_pre_commit))]
        ELSE IF checked /\ upd.overflow
        THEN [grid |-> grid, res |-> Panicked]
        ELSE [grid |-> [grid EXCEPT
                          !.pre_commit_vote_weights = upd.map,
                          !.pre_commit_max_vote_weight = max,
                          !.signed_pre_commits = MapInsert(@, voter, signed_pre_commit),
                          !.pre_commit_sets = PushToSet(@, hash, signed_pre_commit)],
              res  |-> Ok(Some(max))]

insert_signed_choke(grid, signed_choke, checked) ==
    LET voter == signed_choke.voter
        exist == check_exist(MapGet(grid.signed_chokes, voter), signed_choke)
        vote_weight == signed_choke.vote_weight
        overflow    == Overflows(grid.choke_vote_weight.cum_weight, vote_weight)
        cum_weight  == CumWeightNew(WrappingAdd(grid.choke_vote_weight.cum_weight, vote_weight),
                                    "Choke", signed_choke.round, None)
        max  == update_max_vote_weight(grid.choke_vote_weight, cum_weight)
    IN  IF exist = "AlreadyExists"
        THEN [grid |-> grid, res |-> ErrAlreadyExists(Capsule("SignedChoke", signed_choke))]
        ELSE IF exist = "InsertDiff"
        THEN [grid |-> grid,
              res  |-> ErrInsertDiff(Capsule("SignedChoke", grid.signed_chokes[voter]),
                                     Capsule("SignedChoke", signed_choke))]
        ELSE IF checked /\ overflow
        THEN [grid |-> grid, res |-> Panicked]
        ELSE [grid |-> [grid EXCEPT
                          !.choke_vote_weight = max,
                          !.signed_chokes = MapInsert(@, voter, signed_choke)],
              res  |-> Ok(Some(max))]

\* An insert_pre_vote_qc that replaces a stored QC by a differing one.
insert_pre_vote_qc_replace(grid, pre_vote_qc) ==
    IF check_exist(grid.pre_vote_qc, pre_vote_qc) = "AlreadyExists"
    THEN [grid |-> grid, res |-> ErrAlreadyExists(Capsule("PreVoteQC", pre_vote_qc))]
    ELSE [grid |-> [grid EXCEPT !.pre_vote_qc = Some(pre_vote_qc)], res |-> Ok(None)]

insert_pre_vote_qc(grid, pre_vote_qc) ==
    LET exist == check_exist(grid.pre_vote_qc, pre_vote_qc)
    IN  IF exist = "AlreadyExists"
        THEN [grid |-> grid, res |-> ErrAlreadyExists(Capsule("PreVoteQC", pre_vote_qc))]
        ELSE IF exist = "InsertDiff"
        THEN [grid |-> grid,
              res  |-> ErrInsertDiff(Capsule("PreVoteQC", grid.pre_vote_qc[1]),
                                     Capsule("PreVoteQC", pre_vote_qc))]
        ELSE [grid |-> [grid EXCEPT !.pre_vote_qc = Some(pre_vote_qc)], res |-> Ok(None)]

insert_pre_commit_qc(grid, pre_commit_qc) ==
    LET exist == check_exist(grid.pre_commit_qc, pre_commit_qc)
    IN  IF exist = "AlreadyExists"
        THEN [grid |-> grid, res |-> ErrAlreadyExists(Capsule("PreCommitQC", pre_commit_qc))]
        ELSE IF exist = "InsertDiff"
        THEN [grid |-> grid,
              res  |-> ErrInsertDiff(Capsule("PreCommitQC", grid.pre_commit_qc[1]),
                                     Capsule("PreCommitQC", pre_commit_qc))]
        ELSE [grid |-> [grid EXCEPT !.pre_commit_qc = Some(pre_commit_qc)], res |-> Ok(None)]

insert_choke_qc(grid, choke_qc) ==
    LET exist == check_exist(grid.choke_qc, choke_qc)
    IN  IF exist = "AlreadyExists"
        THEN [grid |-> grid, res |-> ErrAlreadyExists(Capsule("ChokeQC", choke_qc))]
        ELSE IF exist = "InsertDiff"
        THEN [grid |-> grid,
              res  |-> ErrInsertDiff(Capsule("ChokeQC", grid.choke_qc[1]),
                                     Capsule("ChokeQC", choke_qc))]
        ELSE [grid |-> [grid EXCEPT !.choke_qc = Some(choke_qc)], res |-> Ok(None)]

\* A Grid::insert that keeps the pre-commits in the pre-vote slot.
GridInsert_shared_votes(grid, data, checked) ==
    CASE data.kind = "SignedProposal"  -> insert_signed_proposal(grid, data.msg)
      [] data.kind = "SignedPreVote"   -> insert_signed_pre_vote(grid, data.msg, checked)
      [] data.kind = "SignedPreCommit" -> insert_signed_pre_vote(grid, data.msg, checked)
      [] data.kind = "SignedChoke"     -> insert_signed_choke(grid, data.msg, checked)
      [] data.kind = "PreVoteQC"       -> insert_pre_vote_qc(grid, data.msg)
      [] data.kind = "PreCommitQC"     -> insert_pre_commit_qc(grid, data.msg)
      [] data.kind = "ChokeQC"         -> insert_choke_qc(grid, data.msg)

\* Grid::insert
GridInsert(grid, data, checked) ==
    CASE data.kind = "SignedProposal"  -> insert_signed_proposal(grid, data.msg)
      [] data.kind = "SignedPreVote"   -> insert_signed_pre_vote(grid, data.msg, checked)
      [] data.kind = "SignedPreCommit" -> insert_signed_pre_commit(grid, data.msg, checked)
      [] data.kind = "SignedChoke"     -> insert_signed_choke(grid, data.msg, checked)
      [] data.kind = "PreVoteQC"       -> insert_pre_vote_qc(grid, data.msg)
      [] data.kind = "PreCommitQC"     -> insert_pre_commit_qc(grid, data.msg)
      [] data.kind = "ChokeQC"         -> insert_choke_qc(grid, data.msg)

\* A Drawer::insert that reports the round's own maximum and keeps no
\* maximum across rounds.
DrawerInsert_round_only(drawer, round, data, checked) ==
    LET collectors == IF round \in DOMAIN drawer.collectors
                      THEN drawer.collectors
                      ELSE MapInsert(drawer.collectors, round, GridDefault)
        g    == GridInsert(collectors[round], data, checked)
        d1   == [drawer EXCEPT !.collectors = MapInsert(collectors, round, g.grid)]
        opt  == g.res.value
    IN  IF ~IsOk(g.res)
        THEN [drawer |-> d1, res |-> g.res]
        ELSE IF opt = None
        THEN [drawer |-> d1, res |-> Ok(None)]
        ELSE LET cum_weight == opt[1] IN
             CASE cum_weight.vote_type = "PreVote" ->
                    [drawer |-> [d1 EXCEPT !.pre_vote_max_vote_weight = cum_weight],
                     res    |-> Ok(Some(cum_weight))]
               [] cum_weight.vote_type = "PreCommit" ->
                    [drawer |-> [d1 EXCEPT !.pre_commit_max_vote_weight = cum_weight],
                     res    |-> Ok(Some(cum_weight))]
               [] cum_weight.vote_type = "Choke" ->
                    [drawer |-> [d1 EXCEPT !.choke_max_vote_weight = cum_weight],
                     res    |-> Ok(Some(cum_weight))]

\* Drawer::insert: the drawer after the call and the call's result.
DrawerInsert(drawer, round, data, checked) ==
    LET collectors == IF round \in DOMAIN drawer.collectors
                      THEN drawer.collectors
                      ELSE MapInsert(drawer.collectors, round, GridDefault)
        g    == GridInsert(collectors[round], data, checked)
        d1   == [drawer EXCEPT !.collectors = MapInsert(collectors, round, g.grid)]
        opt  == g.res.value
    IN  IF ~IsOk(g.res)
        THEN [drawer |-> d1, res |-> g.res]
        ELSE IF opt = None
        THEN [drawer |-> d1, res |-> Ok(None)]
        ELSE LET cum_weight == opt[1] IN
             CASE cum_weight.vote_type = "PreVote" ->
                    LET max == update_max_vote_weight(d1.pre_vote_max_vote_weight, cum_weight)
                    IN  [drawer |-> [d1 EXCEPT !.pre_vote_max_vote_weight = max],
                         res    |-> Ok(Some(max))]
               [] cum_weight.vote_type = "PreCommit" ->
                    LET max == update_max_vote_weight(d1.pre_commit_max_vote_weight, cum_weight)
                    IN  [drawer |-> [d1 EXCEPT !.pre_commit_max_vote_weight = max],
                         res    |-> Ok(Some(max))]
               [] cum_weight.vote_type = "Choke" ->
                    LET max == update_max_vote_weight(d1.choke_max_vote_weight, cum_weight)
                    IN  [drawer |-> [d1 EXCEPT !.choke_max_vote_weight = max],
                         res    |-> Ok(Some(max))]

\* A Cabinet::insert that also creates the drawers of the heights below.
CabinetInsert_eager(cab, height, round, data, checked) ==
    LET drawer == IF height \in DOMAIN cab THEN cab[height] ELSE DrawerDefault
        d      == DrawerInsert(drawer, round, data, checked)
    IN  [cabinet |-> [h \in (DOMAIN cab) \cup (0..height) |->
                        IF h = height THEN d.drawer
                        ELSE IF h \in DOMAIN cab THEN cab[h] ELSE DrawerDefault],
         res |-> d.res]

\* Cabinet::insert: the cabinet after the call and the call's result.
CabinetInsert(cab, height, round, data, checked) ==
    LET drawer == IF height \in DOMAIN cab THEN cab[height] ELSE DrawerDefault
        d      == DrawerInsert(drawer, round, data, checked)
    IN  [cabinet |-> MapInsert(cab, height, d.drawer), res |-> d.res]

\* A remove_below that keeps the part split_off leaves behind: the drawers
\* below `height`.
CabinetRemoveBelow_keeps_lower(cab, height) ==
    [h \in {k \in DOMAIN cab : k < height} |-> cab[h]]

\* A remove_below that also drops the drawer of `height` itself.
CabinetRemoveBelow_inclusive(cab, height) ==
    [h \in {k \in DOMAIN cab : k > height} |-> cab[h]]

\* Cabinet::remove_below: BTreeMap::split_off keeps the keys >= height.
CabinetRemoveBelow(cab, height) ==
    [h \in {k \in DOMAIN cab : k >= height} |-> cab[h]]

\* A pop that removes the drawer of `height` and every drawer below it.
CabinetPop_and_below(cab, height) ==
    [h \in {k \in DOMAIN cab : k > height} |-> cab[h]]

\* Cabinet::pop, the cabinet after the call.
CabinetPop(cab, height) ==
    [h \in (DOMAIN cab) \ {height} |-> cab[h]]

(***************************************************************************)
(* Cabinet's queries.  A query of a height or round that has no drawer or  *)
(* grid gives None.                                                        *)
(***************************************************************************)
GridAt(cab, height, round) ==
    IF height \in DOMAIN cab /\ round \in DOMAIN cab[height].collectors
    THEN Some(cab[height].collectors[round])
    ELSE None

get_signed_proposal(cab, height, round) ==
    LET g == GridAt(cab, height, round) IN IF g = None THEN None ELSE g[1].signed_proposal

get_signed_pre_votes_by_hash(cab, height, round, block_hash) ==
    LET g == GridAt(cab, height, round)
    IN  IF g = None THEN None ELSE MapGet(g[1].pre_vote_sets, block_hash)

get_signed_pre_commits_by_hash(cab, height, round, block_hash) ==
    LET g == GridAt(cab, height, round)
    IN  IF g = None THEN None ELSE MapGet(g[1].pre_commit_sets, block_hash)

\* The Vec is collected from a HashMap, in no particular order: the set of
\* its elements (one per voter) is what the query determines.
get_signed_chokes(cab, height, round) ==
    LET g == GridAt(cab, height, round)
    IN  IF g = None THEN None
        ELSE Some({g[1].signed_chokes[v] : v \in DOMAIN g[1].signed_chokes})

get_pre_vote_qc(cab, height, round) ==
    LET g == GridAt(cab, height, round) IN IF g = None THEN None ELSE g[1].pre_vote_qc

get_pre_commit_qc(cab, height, round) ==
    LET g == GridAt(cab, height, round) IN IF g = None THEN None ELSE g[1].pre_commit_qc

get_choke_qc(cab, height, round) ==
    LET g == GridAt(cab, height, round) IN IF g = None THEN None ELSE g[1].choke_qc

(***************************************************************************)
(* The messages offered to Cabinet::insert at (h, r).  A regular message   *)
(* carries h and r in its own fields and signature 1; a deviant (of voter  *)
(* 1, weight 1 and hash MaxHash) differs from a regular one in exactly one *)
(* of height, round and signature.                                         *)
(***************************************************************************)
Deviants(h, r) ==
    {d \in Heights \X Rounds \X Sigs :
        Cardinality({i \in 1..3 : d[i] # <<h, r, 1>>[i]}) = 1}

SignedVotesAt(h, r) ==
    {SignedVote(h, r, x, w, v, 1) : x \in Hashes, w \in Weights, v \in Voters}
    \cup {SignedVote(d[1], d[2], MaxHash, 1, 1, d[3]) : d \in Deviants(h, r)}

SignedChokesAt(h, r) ==
    {SignedChoke(h, r, w, v, 1) : w \in Weights, v \in Voters}
    \cup {SignedChoke(d[1], d[2], 1, 1, d[3]) : d \in Deviants(h, r)}

SignedProposalsAt(h, r) ==
    {SignedProposal(h, r, x, 1) : x \in Hashes}
    \cup {SignedProposal(d[1], d[2], MaxHash, d[3]) : d \in Deviants(h, r)}

VoteQCsAt(h, r) ==
    {VoteQC(h, r, x, 1) : x \in Hashes}
    \cup {VoteQC(d[1], d[2], MaxHash, d[3]) : d \in Deviants(h, r)}

ChokeQCsAt(h, r) ==
    {ChokeQC(h, r, 1)} \cup {ChokeQC(d[1], d[2], d[3]) : d \in Deviants(h, r)}

CapsulesAt(h, r) ==
    {Capsule("SignedProposal", m) : m \in SignedProposalsAt(h, r)}
    \cup {Capsule("SignedPreVote", m) : m \in SignedVotesAt(h, r)}
    \cup {Capsule("SignedPreCommit", m) : m \in SignedVotesAt(h, r)}
    \cup {Capsule("SignedChoke", m) : m \in SignedChokesAt(h, r)}
    \cup {Capsule("PreVoteQC", m) : m \in VoteQCsAt(h, r)}
    \cup {Capsule("PreCommitQC", m) : m \in VoteQCsAt(h, r)}
    \cup {Capsule("ChokeQC", m) : m \in ChokeQCsAt(h, r)}

(***************************************************************************)
(* timer.rs.  The SMR events the timer receives carry a height (epoch_id)  *)
(* and a round; Commit and Stop carry neither for the timer.               *)
(***************************************************************************)
MaxEpoch == 1
CoefBits == 4
CoefCap == 10
BaseRatio == 10
MaxEvents == 3
MaxWaits == 1

TimerEpochs == 0..MaxEpoch

\* Rounds of the NewRoundInfo events of the last height: the first ones, those around the cap
\* of the back-off, and two that do not fit the narrower integer `coef` is
\* cast to (2^CoefBits stands for 2^32).
BackoffRounds == {0, 1, 2, 3, CoefCap, CoefCap + 1, 2^CoefBits, 2^CoefBits + 3}

\* Rounds of the PrevoteVote and PrecommitVote events.
VoteRounds == {0, 1}

NewRoundInfo(epoch_id, round) == [kind |-> "NewRoundInfo", epoch_id |-> epoch_id, round |-> round]
PrevoteVote(epoch_id, round) == [kind |-> "PrevoteVote", epoch_id |-> epoch_id, round |-> round]
PrecommitVote(epoch_id, round) == [kind |-> "PrecommitVote", epoch_id |-> epoch_id, round |-> round]
CommitEvent == [kind |-> "Commit", epoch_id |-> 0, round |-> 0]
StopEvent == [kind |-> "Stop", epoch_id |-> 0, round |-> 0]

SMREvents ==
    {NewRoundInfo(e, r) : e \in TimerEpochs, r \in VoteRounds}
    \cup {NewRoundInfo(MaxEpoch, r) : r \in BackoffRounds}
    \cup {PrevoteVote(e, r) : e \in TimerEpochs, r \in VoteRounds}
    \cup {PrecommitVote(e, r) : e \in TimerEpochs, r \in VoteRounds}
    \cup {CommitEvent, StopEvent}

\* SMRTrigger { source: Timer, hash: Hash::new(), trigger_type, round, epoch_id }
SMRTrigger(trigger_type, round, epoch_id) ==
    [source |-> "Timer", hash |-> <<>>, trigger_type |-> trigger_type,
     round |-> round, epoch_id |-> epoch_id]

INIT_EPOCH_ID == 0
INIT_ROUND == 0

\* A default configuration whose pre-vote and pre-commit ratios are swapped.
TimeConfigDefault_swapped ==
    [interval |-> 1000, propose_ratio |-> 15, pre_vote_ratio |-> 7,
     pre_commit_ratio |-> 10, brake_ratio |-> 10]

\* TimeConfig::default()
TimeConfigDefault ==
    [interval |-> 1000, propose_ratio |-> 15, pre_vote_ratio |-> 10,
     pre_commit_ratio |-> 7, brake_ratio |-> 10]

\* The intervals (ms) Timer::new is given.
Intervals == {1000}

\* TimerConfig::new(interval): the ratios of the phases, in tenths of the
\* interval.
TimerConfigNew(interval) ==
    [interval |-> interval, propose_ratio |-> 15, pre_vote_ratio |-> 10,
     pre_commit_ratio |-> 7]

\* TimerConfig::get_timeout: the base duration (ms) of the event's phase,
\* None for an event that has no timer.
get_timeout(config, event) ==
    CASE event.kind = "NewRoundInfo"  -> Some((config.interval * config.propose_ratio) \div BaseRatio)
      [] event.kind = "PrevoteVote"   -> Some((config.interval * config.pre_vote_ratio) \div BaseRatio)
      [] event.kind = "PrecommitVote" -> Some((config.interval * config.pre_commit_ratio) \div BaseRatio)
      [] OTHER -> None

\* Timer::new
TimerNew(interval) ==
    [config |-> TimerConfigNew(interval), epoch_id |-> INIT_EPOCH_ID, round |-> INIT_ROUND]

\* `self.round as u32`, capped at 10.
Coef(round) ==
    LET coef == round % (2^CoefBits)
    IN  IF coef > CoefCap THEN CoefCap ELSE coef

\* A set_timer that takes the propose timeout for every phase.
set_timer_propose_interval(tm, event) ==
    LET t1 == IF event.kind = "NewRoundInfo"
              THEN [tm EXCEPT !.epoch_id = IF event.epoch_id > @ THEN event.epoch_id ELSE @,
                              !.round = event.round]
              ELSE tm
        interval == get_timeout(tm.config, NewRoundInfo(event.epoch_id, event.round))
    IN  IF event.kind \in {"Commit", "Stop"}
        THEN [timer |-> tm, delay |-> None, res |-> "Ok"]
        ELSE IF event.kind = "NewRoundInfo"
        THEN [timer |-> t1, delay |-> Some(interval[1] * 2^Coef(t1.round)), res |-> "Ok"]
        ELSE [timer |-> t1, delay |-> Some(interval[1]), res |-> "Ok"]

\* A set_timer that arms the pre-commit timeout for a Commit event.
set_timer_commit_delay(tm, event) ==
    LET t1 == IF event.kind = "NewRoundInfo"
              THEN [tm EXCEPT !.epoch_id = IF event.epoch_id > @ THEN event.epoch_id ELSE @,
                              !.round = event.round]
              ELSE tm
        interval == get_timeout(tm.config, IF event.kind = "Commit"
                                           THEN PrecommitVote(event.epoch_id, event.round)
                                           ELSE event)
    IN  IF interval = None
        THEN [timer |-> t1, delay |-> None, res |-> "Err"]
        ELSE IF event.kind = "NewRoundInfo"
        THEN [timer |-> t1, delay |-> Some(interval[1] * 2^Coef(t1.round)), res |-> "Ok"]
        ELSE [timer |-> t1, delay |-> Some(interval[1]), res |-> "Ok"]

\* Timer::set_timer: the timer after the call, the interval of the delay it
\* spawned (None if it spawned none) and its result.
set_timer(tm, event) ==
    LET t1 == IF event.kind = "NewRoundInfo"
              THEN [tm EXCEPT !.epoch_id = IF event.epoch_id > @ THEN event.epoch_id ELSE @,
                              !.round = event.round]
              ELSE tm
        interval == get_timeout(tm.config, event)
    IN  IF event.kind = "Commit"
        THEN [timer |-> tm, delay |-> None, res |-> "Ok"]
        ELSE IF interval = None
        THEN [timer |-> t1, delay |-> None, res |-> "Err"]
        ELSE IF event.kind = "NewRoundInfo"
        THEN [timer |-> t1, delay |-> Some(interval[1] * 2^Coef(t1.round)), res |-> "Ok"]
        ELSE [timer |-> t1, delay |-> Some(interval[1]), res |-> "Ok"]

\* A trigger that answers a pre-vote timeout with the pre-commit's trigger.
trigger_prevote_as_precommit(tm, event) ==
    CASE event.kind = "NewRoundInfo" ->
            IF event.epoch_id < tm.epoch_id \/ event.round < tm.round
            THEN [out |-> None, res |-> "Ok"]
            ELSE [out |-> Some(SMRTrigger("Proposal", None, event.epoch_id)), res |-> "Ok"]
      [] event.kind \in {"PrevoteVote", "PrecommitVote"} ->
            IF event.epoch_id < tm.epoch_id
            THEN [out |-> None, res |-> "Ok"]
            ELSE [out |-> Some(SMRTrigger("PrecommitQC", Some(event.round), event.epoch_id)),
                  res |-> "Ok"]
      [] OTHER -> [out |-> None, res |-> "Err"]

\* A trigger that tags the trigger with the timer's height, not the event's.
trigger_timer_epoch(tm, event) ==
    CASE event.kind = "NewRoundInfo" ->
            IF event.epoch_id < tm.epoch_id \/ event.round < tm.round
            THEN [out |-> None, res |-> "Ok"]
            ELSE [out |-> Some(SMRTrigger("Proposal", None, tm.epoch_id)), res |-> "Ok"]
      [] event.kind = "PrevoteVote" ->
            IF event.epoch_id < tm.epoch_id
            THEN [out |-> None, res |-> "Ok"]
            ELSE [out |-> Some(SMRTrigger("PrevoteQC", Some(event.round), tm.epoch_id)),
                  res |-> "Ok"]
      [] event.kind = "PrecommitVote" ->
            IF event.epoch_id < tm.epoch_id
            THEN [out |-> None, res |-> "Ok"]
            ELSE [out |-> Some(SMRTrigger("PrecommitQC", Some(event.round), tm.epoch_id)),
                  res |-> "Ok"]
      [] OTHER -> [out |-> None, res |-> "Err"]

\* A trigger that also drops the propose timeout of the timer's own round.
trigger_drops_current_round(tm, event) ==
    CASE event.kind = "NewRoundInfo" ->
            IF event.epoch_id < tm.epoch_id \/ event.round <= tm.round
            THEN [out |-> None, res |-> "Ok"]
            ELSE [out |-> Some(SMRTrigger("Proposal", None, event.epoch_id)), res |-> "Ok"]
      [] event.kind = "PrevoteVote" ->
            IF event.epoch_id < tm.epoch_id
            THEN [out |-> None, res |-> "Ok"]
            ELSE [out |-> Some(SMRTrigger("PrevoteQC", Some(event.round), event.epoch_id)),
                  res |-> "Ok"]
      [] event.kind = "PrecommitVote" ->
            IF event.epoch_id < tm.epoch_id
            THEN [out |-> None, res |-> "Ok"]
            ELSE [out |-> Some(SMRTrigger("PrecommitQC", Some(event.round), event.epoch_id)),
                  res |-> "Ok"]
      [] OTHER -> [out |-> None, res |-> "Err"]

\* Timer::trigger: the trigger handed to the SMR (None if the timeout is
\* dropped) and the call's result.
trigger(tm, event) ==
    CASE event.kind = "NewRoundInfo" ->
            IF event.epoch_id < tm.epoch_id \/ event.round < tm.round
            THEN [out |-> None, res |-> "Ok"]
            ELSE [out |-> Some(SMRTrigger("Proposal", None, event.epoch_id)), res |-> "Ok"]
      [] event.kind = "PrevoteVote" ->
            IF event.epoch_id < tm.epoch_id
            THEN [out |-> None, res |-> "Ok"]
            ELSE [out |-> Some(SMRTrigger("PrevoteQC", Some(event.round), event.epoch_id)),
                  res |-> "Ok"]
      [] event.kind = "PrecommitVote" ->
            IF event.epoch_id < tm.epoch_id
            THEN [out |-> None, res |-> "Ok"]
            ELSE [out |-> Some(SMRTrigger("PrecommitQC", Some(event.round), event.epoch_id)),
                  res |-> "Ok"]
      [] OTHER -> [out |-> None, res |-> "Err"]

(***************************************************************************)
(* The round-based state machine of one height (SMR), the authority list   *)
(* and the part of the driver that forms QCs.  The votes are those of      *)
(* types.rs; the timeouts reach the SMR through Timer::trigger.            *)
(***************************************************************************)
\* Authorities are 0..NumAuth-1, in the order of the sorted authority list.
NumAuth == 4
\* The SMR runs heights 1..MaxSmrHeight, each in rounds 0..MaxSmrRound.
MaxSmrHeight == 2
MaxSmrRound == 1
\* Blocks (by hash) an authority can propose are 1..NumBlocks.
NumBlocks == 2
MaxTimeouts == 3

Authorities == 0..(NumAuth - 1)
SmrHeights == 1..MaxSmrHeight
SmrRounds == 0..MaxSmrRound

\* Hash::default(), the hash of an empty vote.
EmptyHash == 0
BlockHashes == 1..NumBlocks

\* Vote::new
VoteNew(height, round, block_hash) ==
    [height |-> height, round |-> round, block_hash |-> block_hash]

\* Vote::empty_vote
empty_vote(height, round) == VoteNew(height, round, EmptyHash)

\* Vote::is_empty_vote
is_empty_vote(vote) == vote.block_hash = EmptyHash

\* Proposal::new (the block is known by its hash); lock is the PreVoteQC
\* the proposer has adopted, if any.
ProposalNew(height, round, block_hash, lock, proposer) ==
    [height |-> height, round |-> round, block_hash |-> block_hash, lock |-> lock,
     proposer |-> proposer]

\* Proposal::as_vote
as_vote(proposal) == VoteNew(proposal.height, proposal.round, proposal.block_hash)

\* A signed pre-vote, pre-commit or choke (a choke is for no block).
SignedSmrVote(type, vote, voter) == [type |-> type, vote |-> vote, voter |-> voter]

\* What an authority signs: a pre-vote, a pre-commit or a choke.
SignedSmrVoteBody(type, vote) == [type |-> type, vote |-> vote]

\* PreVoteQC::new, PreCommitQC::new, ChokeQC::new: a QC is known by its
\* vote or choke; the voters of its aggregated signature are those whose
\* votes the driver has counted when it forms the QC.
QCNew(type, vote) == [type |-> type, vote |-> vote]

\* The authority list of every height: equal vote weights.
vote_weight(a) == 1

RECURSIVE WeightOf(_)
\* The summed vote weight of a set of authorities.
WeightOf(S) ==
    IF S = {} THEN 0
    ELSE LET a == CHOOSE x \in S : TRUE IN vote_weight(a) + WeightOf(S \ {a})

total_weight == WeightOf(Authorities)

\* A threshold that accepts two thirds of the weight, not more than two thirds.
threshold_two_thirds == (2 * total_weight) \div 3

\* threshold = floor(2 * total_weight / 3) + 1
threshold == (2 * total_weight) \div 3 + 1

\* In-turn selection of the proposer of (height, round).
Proposer(height, round) == (height + round) % NumAuth

\* The authorities that do not follow the protocol: the proposer of the
\* first round of the first height.  They hold no more than a third of the
\* vote weight.
Faulty == {Proposer(1, 0)}
Honest == Authorities \ Faulty

\* The SMR of an authority at the start of a height.
SmrNew(height) == [height |-> height, round |-> 0, step |-> "Propose", lock |-> None]

\* A proposal is valid at its round: it comes from the round's proposer,
\* is for a block, and a lock it carries is a PreVoteQC that was formed for
\* the same block at an earlier round of the height.
valid_proposal(p, formed) ==
    /\ p.proposer = Proposer(p.height, p.round)
    /\ p.block_hash \in BlockHashes
    /\ p.lock # None =>
          /\ p.lock[1] \in formed
          /\ p.lock[1].type = "PreVote"
          /\ p.lock[1].vote.height = p.height
          /\ p.lock[1].vote.round < p.round
          /\ p.lock[1].vote.block_hash = p.block_hash

\* An on_proposal that adopts the proposal whatever the lock.
on_proposal_ignores_lock(st, p) ==
    [smr |-> [st EXCEPT !.step = "PreVote"], vote |-> as_vote(p)]

\* On SignedProposal at the SMR's (height, round): a locked authority
\* refuses a proposal whose lock is of an earlier round than its own (a
\* proposal that carries no lock is earlier than any) and pre-votes empty;
\* otherwise it pre-votes the proposal's block.
on_proposal(st, p) ==
    LET refuse == /\ st.lock # None
                  /\ \/ p.lock = None
                     \/ st.lock[1].vote.round > p.lock[1].vote.round
    IN  [smr |-> [st EXCEPT !.step = "PreVote"],
         vote |-> IF refuse THEN empty_vote(st.height, st.round) ELSE as_vote(p)]

\* An on_pre_vote_qc that, on an empty PreVoteQC, pre-commits the block
\* the authority is locked on.
on_pre_vote_qc_pre_commits_lock(st, qc) ==
    IF is_empty_vote(qc.vote)
    THEN [smr |-> [st EXCEPT !.round = qc.vote.round, !.step = "PreCommit"],
          vote |-> IF st.lock = None THEN empty_vote(st.height, qc.vote.round)
                   ELSE VoteNew(st.height, qc.vote.round, st.lock[1].vote.block_hash)]
    ELSE [smr |-> [st EXCEPT !.round = qc.vote.round, !.step = "PreCommit",
                             !.lock = Some(qc)],
          vote |-> qc.vote]

\* An on_pre_vote_qc that clears the lock on an empty PreVoteQC.
on_pre_vote_qc_clears_lock(st, qc) ==
    IF is_empty_vote(qc.vote)
    THEN [smr |-> [st EXCEPT !.round = qc.vote.round, !.step = "PreCommit", !.lock = None],
          vote |-> empty_vote(st.height, qc.vote.round)]
    ELSE [smr |-> [st EXCEPT !.round = qc.vote.round, !.step = "PreCommit",
                             !.lock = Some(qc)],
          vote |-> qc.vote]

\* On PreVoteQC: for a block, lock on it and pre-commit it; for the empty
\* hash, pre-commit empty and leave the lock.
on_pre_vote_qc(st, qc) ==
    IF is_empty_vote(qc.vote)
    THEN [smr |-> [st EXCEPT !.round = qc.vote.round, !.step = "PreCommit"],
          vote |-> empty_vote(st.height, qc.vote.round)]
    ELSE [smr |-> [st EXCEPT !.round = qc.vote.round, !.step = "PreCommit",
                             !.lock = Some(qc)],
          vote |-> qc.vote]

\* The commit event: (height, block, PreCommitQC).
CommitNew(height, block_hash, proof) ==
    [height |-> height, block_hash |-> block_hash, proof |-> proof]

\* On PreCommitQC: for a block, commit it with the QC as proof and stop the
\* height; for the empty hash, brake.
on_pre_commit_qc(st, qc) ==
    IF is_empty_vote(qc.vote)
    THEN [smr |-> [st EXCEPT !.round = qc.vote.round, !.step = "Brake"], commit |-> None]
    ELSE [smr |-> [st EXCEPT !.round = qc.vote.round, !.step = "Commit"],
          commit |-> Some(CommitNew(st.height, qc.vote.block_hash, qc))]

\* On ChokeQC at (H, r): advance to round r + 1.
on_choke_qc(st, qc) ==
    [st EXCEPT !.round = qc.vote.round + 1, !.step = "Propose"]

\* The timer the SMR has told of its height and round.
TimerOf(st) ==
    [TimerNew(TimeConfigDefault.interval) EXCEPT !.epoch_id = st.height, !.round = st.round]

\* The event the SMR has armed a timer with on entering its step.
ArmedEvent(st) ==
    CASE st.step = "Propose"   -> Some(NewRoundInfo(st.height, st.round))
      [] st.step = "PreVote"   -> Some(PrevoteVote(st.height, st.round))
      [] st.step = "PreCommit" -> Some(PrecommitVote(st.height, st.round))
      [] OTHER -> None

\* On a trigger of the timer: a propose timeout in the Propose step pre-votes
\* empty, a pre-vote timeout in the PreVote step pre-commits empty, and a
\* pre-commit timeout in the PreCommit step chokes and brakes.  A trigger
\* of another height, round or step is dropped.
on_timer_trigger(st, trig) ==
    LET current == /\ trig.epoch_id = st.height
                   /\ trig.round \in {None, Some(st.round)}
    IN  CASE current /\ trig.trigger_type = "Proposal" /\ st.step = "Propose" ->
               [smr |-> [st EXCEPT !.step = "PreVote"],
                vote |-> Some(SignedSmrVoteBody("PreVote", empty_vote(st.height, st.round)))]
          [] current /\ trig.trigger_type = "PrevoteQC" /\ st.step = "PreVote" ->
               [smr |-> [st EXCEPT !.step = "PreCommit"],
                vote |-> Some(SignedSmrVoteBody("PreCommit", empty_vote(st.height, st.round)))]
          [] current /\ trig.trigger_type = "PrecommitQC" /\ st.step = "PreCommit" ->
               [smr |-> [st EXCEPT !.step = "Brake"],
                vote |-> Some(SignedSmrVoteBody("Choke", empty_vote(st.height, st.round)))]
          [] OTHER -> [smr |-> st, vote |-> None]

(***************************************************************************)
(* The test Block and its serialization (Block::encode / Block::decode     *)
(* over bincode): a struct is its fields in order, an integer is its       *)
(* little-endian bytes at fixed width, a byte string, a string or a vector *)
(* is its length as a 64-bit integer followed by its content, a unit enum  *)
(* variant is its index as a 32-bit integer.                               *)
(***************************************************************************)
\* Byte strings at hand are over 0..MaxByte and no longer than MaxBytesLen;
\* integers of a block go up to MaxBlkInt times BlkIntStep.
MaxByte == 1
MaxBytesLen == 1
MaxBlkInt == 1
\* One step of an integer field: 257 has two non-zero bytes.
BlkIntStep == 257
ByteBase == 256
U64Width == 8
U32Width == 4

RECURSIVE le_bytes(_, _)
\* to_le_bytes at the width w
le_bytes(v, w) == IF w = 0 THEN <<>> ELSE <<v % ByteBase>> \o le_bytes(v \div ByteBase, w - 1)

RECURSIVE le_value(_)
\* from_le_bytes
le_value(bs) == IF bs = <<>> THEN 0 ELSE Head(bs) + ByteBase * le_value(Tail(bs))

\* What a reader has taken from the input and what is left of it.
Taken(val, rest) == [val |-> val, rest |-> rest]
Drop(bs, n) == SubSeq(bs, n + 1, Len(bs))

ser_u64(v) == le_bytes(v, U64Width)
ser_u32(v) == le_bytes(v, U32Width)
read_u64(bs) == Taken(le_value(SubSeq(bs, 1, U64Width)), Drop(bs, U64Width))
read_u32(bs) == Taken(le_value(SubSeq(bs, 1, U32Width)), Drop(bs, U32Width))

\* Bytes, String: length, then content.
ser_bytes(b) == ser_u64(Len(b)) \o b
read_bytes(bs) ==
    LET n == read_u64(bs) IN Taken(SubSeq(n.rest, 1, n.val), Drop(n.rest, n.val))

RECURSIVE ser_each_bytes(_)
\* The elements of a Vec<Hash> one after the other.
ser_each_bytes(v) ==
    IF v = <<>> THEN <<>> ELSE ser_bytes(Head(v)) \o ser_each_bytes(Tail(v))

RECURSIVE read_each_bytes(_, _)
\* n byte strings one after the other.
read_each_bytes(bs, n) ==
    IF n = 0 THEN Taken(<<>>, bs)
    ELSE LET x == read_bytes(bs)
             xs == read_each_bytes(x.rest, n - 1)
         IN  Taken(<<x.val>> \o xs.val, xs.rest)

\* Vec<Hash>: length, then the elements.
ser_vec_bytes(v) == ser_u64(Len(v)) \o ser_each_bytes(v)
read_vec_bytes(bs) == LET n == read_u64(bs) IN read_each_bytes(n.rest, n.val)

\* Vote
ser_vote(v) == ser_u64(v.height) \o ser_u64(v.round) \o ser_bytes(v.block_hash)
read_vote(bs) ==
    LET h == read_u64(bs)
        r == read_u64(h.rest)
        b == read_bytes(r.rest)
    IN  Taken([height |-> h.val, round |-> r.val, block_hash |-> b.val], b.rest)

\* Aggregates
ser_aggregates(a) == ser_bytes(a.address_bitmap) \o ser_bytes(a.signature)
read_aggregates(bs) ==
    LET m == read_bytes(bs)
        s == read_bytes(m.rest)
    IN  Taken([address_bitmap |-> m.val, signature |-> s.val], s.rest)

\* Proof = PreCommitQC
ser_proof(p) == ser_vote(p.vote) \o ser_aggregates(p.aggregates)
read_proof(bs) ==
    LET v == read_vote(bs)
        a == read_aggregates(v.rest)
    IN  Taken([vote |-> v.val, aggregates |-> a.val], a.rest)

\* SelectMode: the index of the variant.
SelectModes == <<"InTurn", "Random">>
ser_mode(m) == ser_u32((CHOOSE i \in 1..Len(SelectModes) : SelectModes[i] = m) - 1)
read_mode(bs) == LET i == read_u32(bs) IN Taken(SelectModes[i.val + 1], i.rest)

\* Node
ser_node(n) ==
    ser_bytes(n.address) \o ser_bytes(n.pub_key)
        \o ser_u32(n.propose_weight) \o ser_u32(n.vote_weight)
read_node(bs) ==
    LET a == read_bytes(bs)
        k == read_bytes(a.rest)
        p == read_u32(k.rest)
        v == read_u32(p.rest)
    IN  Taken([address |-> a.val, pub_key |-> k.val, propose_weight |-> p.val,
               vote_weight |-> v.val], v.rest)

RECURSIVE ser_each_node(_)
\* The elements of a Vec<Node> one after the other.
ser_each_node(v) ==
    IF v = <<>> THEN <<>> ELSE ser_node(Head(v)) \o ser_each_node(Tail(v))

RECURSIVE read_each_node(_, _)
\* n nodes one after the other.
read_each_node(bs, n) ==
    IF n = 0 THEN Taken(<<>>, bs)
    ELSE LET x == read_node(bs)
             xs == read_each_node(x.rest, n - 1)
         IN  Taken(<<x.val>> \o xs.val, xs.rest)

\* Vec<Node>: length, then the elements.
ser_vec_node(v) == ser_u64(Len(v)) \o ser_each_node(v)
read_vec_node(bs) == LET n == read_u64(bs) IN read_each_node(n.rest, n.val)

\* AuthConfig
ser_auth_config(c) ==
    ser_bytes(c.common_ref) \o ser_mode(c.mode) \o ser_vec_node(c.auth_list)
read_auth_config(bs) ==
    LET c == read_bytes(bs)
        m == read_mode(c.rest)
        l == read_vec_node(m.rest)
    IN  Taken([common_ref |-> c.val, mode |-> m.val, auth_list |-> l.val], l.rest)

\* TimeConfig
ser_time_config(c) ==
    ser_u64(c.interval) \o ser_u64(c.propose_ratio) \o ser_u64(c.pre_vote_ratio)
        \o ser_u64(c.pre_commit_ratio) \o ser_u64(c.brake_ratio)
read_time_config(bs) ==
    LET i == read_u64(bs)
        p == read_u64(i.rest)
        v == read_u64(p.rest)
        c == read_u64(v.rest)
        b == read_u64(c.rest)
    IN  Taken([interval |-> i.val, propose_ratio |-> p.val, pre_vote_ratio |-> v.val,
               pre_commit_ratio |-> c.val, brake_ratio |-> b.val], b.rest)

\* The configuration a test block carries as its transaction.
ser_config(c) ==
    ser_u64(c.max_exec_behind) \o ser_auth_config(c.auth_config)
        \o ser_time_config(c.time_config)
read_config(bs) ==
    LET m == read_u64(bs)
        a == read_auth_config(m.rest)
        t == read_time_config(a.rest)
    IN  Taken([max_exec_behind |-> m.val, auth_config |-> a.val, time_config |-> t.val],
              t.rest)

\* Block::encode: bincode::serialize(self)
encode(b) ==
    ser_bytes(b.pre_hash) \o ser_u64(b.height) \o ser_u64(b.exec_height)
        \o ser_proof(b.pre_proof) \o ser_bytes(b.state_root)
        \o ser_vec_bytes(b.receipt_roots) \o ser_config(b.tx)

\* A decode that reads the two heights in the other order.
decode_heights_swapped(bs) ==
    LET p == read_bytes(bs)
        e == read_u64(p.rest)
        h == read_u64(e.rest)
        q == read_proof(h.rest)
        s == read_bytes(q.rest)
        r == read_vec_bytes(s.rest)
        t == read_config(r.rest)
    IN  [pre_hash |-> p.val, height |-> h.val, exec_height |-> e.val, pre_proof |-> q.val,
         state_root |-> s.val, receipt_roots |-> r.val, tx |-> t.val]

\* Block::decode: bincode::deserialize(data)
decode(bs) ==
    LET p == read_bytes(bs)
        h == read_u64(p.rest)
        e == read_u64(h.rest)
        q == read_proof(e.rest)
        s == read_bytes(q.rest)
        r == read_vec_bytes(s.rest)
        t == read_config(r.rest)
    IN  [pre_hash |-> p.val, height |-> h.val, exec_height |-> e.val, pre_proof |-> q.val,
         state_root |-> s.val, receipt_roots |-> r.val, tx |-> t.val]

\* The values of the bounded blocks.
BlkBytes == UNION {[1..n -> 0..MaxByte] : n \in 0..MaxBytesLen}
BlkInts == {i * BlkIntStep : i \in 0..MaxBlkInt}
BlkRoots == {<<>>} \cup {<<x>> : x \in BlkBytes} \cup {<<<<>>, x>> : x \in BlkBytes}

\* Vote::default, Aggregates::default, PreCommitQC::default
ProofDefault ==
    [vote |-> [height |-> 0, round |-> 0, block_hash |-> <<>>],
     aggregates |-> [address_bitmap |-> <<>>, signature |-> <<>>]]
BlkProofs ==
    {ProofDefault,
     [vote |-> [height |-> BlkIntStep, round |-> 1, block_hash |-> <<0>>],
      aggregates |-> [address_bitmap |-> <<1>>, signature |-> <<>>]],
     [vote |-> [height |-> 1, round |-> BlkIntStep, block_hash |-> <<>>],
      aggregates |-> [address_bitmap |-> <<>>, signature |-> <<0, 1>>]]}

\* The default configuration: AuthConfig::default, TimeConfig::default.
ConfigDefault ==
    [max_exec_behind |-> 0,
     auth_config |-> [common_ref |-> <<>>, mode |-> "InTurn", auth_list |-> <<>>],
     time_config |-> TimeConfigDefault]
BlkConfigs ==
    {ConfigDefault,
     [max_exec_behind |-> BlkIntStep,
      auth_config |-> [common_ref |-> <<1>>, mode |-> "Random",
                       auth_list |-> <<[address |-> <<0>>, pub_key |-> <<>>,
                                        propose_weight |-> 1, vote_weight |-> BlkIntStep],
                                       [address |-> <<>>, pub_key |-> <<1, 0>>,
                                        propose_weight |-> 0, vote_weight |-> 1]>>],
      time_config |-> [TimeConfigDefault EXCEPT !.interval = 3000]]}

BlkStateRoots == {<<>>, <<1>>}

\* Block::default
BlockDefault ==
    [pre_hash |-> <<>>, height |-> 0, exec_height |-> 0, pre_proof |-> ProofDefault,
     state_root |-> <<>>, receipt_roots |-> <<>>, tx |-> ConfigDefault]

(***************************************************************************)
(* State: the cabinet; the last call made on it with its result; the       *)
(* cabinet as it was before that call; and the bound of the last           *)
(* remove_below (0 before the first).                                      *)
(*                                                                         *)
(* The timer: its fields; whether its stream is still polled; the delays   *)
(* spawned so far; the channel the expired delays send into; the triggers  *)
(* handed to the SMR; the time in ms; and the last step of the timer.      *)
(*                                                                         *)
(* The authorities: the SMR of each honest one; the commits each has       *)
(* emitted; the proposals and the votes the honest ones have sent; and the *)
(* QCs that have been formed.                                              *)
(*                                                                         *)
(* The serialization test: the block at hand, its encoding and what the    *)
(* encoding decodes to.                                                    *)
(***************************************************************************)
VARIABLES cabinet, last, prev, below, ninserts, nremoves,
          timer, status, armed, notify_ch, smr, now, tlast, nevents, nwaits,
          node, commits, proposals, cast_votes, qcs, ntimeouts,
          blk, encoded, decoded

cvars == <<cabinet, last, prev, below, ninserts, nremoves>>

tvars == <<timer, status, armed, notify_ch, smr, now, tlast, nevents, nwaits>>

svars == <<node, commits, proposals, cast_votes, qcs, ntimeouts>>

bvars == <<blk, encoded, decoded>>

vars == <<cvars, tvars, svars, bvars>>

Call(op, height, round, data, result) ==
    [op |-> op, height |-> height, round |-> round, data |-> data, result |-> result]

\* A step of the timer: the call, the delay it is about, the event, the
\* timer before the call, what the call gave (the interval of the spawned
\* delay, or the trigger handed to the SMR), and how many delays and
\* triggers there were before it.
TStep(op, id, event, before, out, narmed, nsmr) ==
    [op |-> op, id |-> id, event |-> event, before |-> before, out |-> out,
     narmed |-> narmed, nsmr |-> nsmr]

\* A step of the timer's surroundings, which leaves the timer as it is.
EnvStep(op) == TStep(op, 0, None, timer, None, Len(armed), Len(smr))

\* Timer::new(event, state_machine, interval, None), nothing sent yet.
TimerInit ==
    /\ timer \in {TimerNew(interval) : interval \in Intervals}
    /\ status = "polled"
    /\ armed = <<>>
    /\ notify_ch = <<>>
    /\ smr = <<>>
    /\ now = 0
    /\ tlast = TStep("new", 0, None, timer, None, 0, 0)
    /\ nevents = 0
    /\ nwaits = 0

\* Every honest authority starts height 1 in round 0; nothing is sent yet.
SmrInit ==
    /\ node = [n \in Honest |-> SmrNew(1)]
    /\ commits = [n \in Honest |-> <<>>]
    /\ proposals = {}
    /\ cast_votes = {}
    /\ qcs = {}
    /\ ntimeouts = 0

\* Cabinet::default()
Init ==
    /\ cabinet = EmptyMap
    /\ prev = EmptyMap
    /\ last = Call("new", 0, 0, None, Ok(None))
    /\ below = 0
    /\ ninserts = 0
    /\ nremoves = 0
    /\ TimerInit
    /\ SmrInit
    /\ blk = BlockDefault
    /\ encoded = None
    /\ decoded = None

\* A panic ends the program.
Running == last.result.tag # "Panic"

\* cabinet.insert(height, round, data), in a build that checks overflow or
\* in one that does not.
Insert(height, round, data) ==
    /\ Running
    /\ ninserts < MaxInserts
    /\ \E c \in {CabinetInsert(cabinet, height, round, data, checked) : checked \in BOOLEAN} :
          /\ cabinet' = (IF c.res = Panicked THEN cabinet ELSE c.cabinet)
          /\ last' = Call("insert", height, round, Some(data), c.res)
    /\ prev' = cabinet
    /\ ninserts' = ninserts + 1
    /\ UNCHANGED <<below, nremoves>>
    /\ UNCHANGED <<tvars, svars, bvars>>

\* The orders in which HashMap::values can yield the grids of a drawer.
ValueOrders(collectors) ==
    LET n == Cardinality(DOMAIN collectors)
    IN  {[i \in 1..n |-> collectors[p[i]]] :
            p \in {q \in [1..n -> DOMAIN collectors] : \A i, j \in 1..n : q[i] = q[j] => i = j}}

\* cabinet.pop(height)
Pop(height) ==
    /\ Running
    /\ nremoves < MaxRemoves
    /\ IF height \in DOMAIN cabinet
       THEN \E grids \in ValueOrders(cabinet[height].collectors) :
               last' = Call("pop", height, 0, None, Ok(Some(grids)))
       ELSE last' = Call("pop", height, 0, None, Ok(None))
    /\ cabinet' = CabinetPop(cabinet, height)
    /\ prev' = cabinet
    /\ nremoves' = nremoves + 1
    /\ UNCHANGED <<below, ninserts>>
    /\ UNCHANGED <<tvars, svars, bvars>>

\* cabinet.remove_below(height)
RemoveBelow(height) ==
    /\ Running
    /\ nremoves < MaxRemoves
    /\ cabinet' = CabinetRemoveBelow(cabinet, height)
    /\ prev' = cabinet
    /\ last' = Call("remove_below", height, 0, None, Ok(None))
    /\ below' = height
    /\ nremoves' = nremoves + 1
    /\ UNCHANGED ninserts
    /\ UNCHANGED <<tvars, svars, bvars>>

Next ==
    \/ \E height \in Heights, round \in Rounds :
          \E data \in CapsulesAt(height, round) : Insert(height, round, data)
    \/ \E height \in Heights : Pop(height)
    \/ \E height \in 0..(MaxHeight + 1) : RemoveBelow(height)

Spec == Init /\ [][Next]_vars

(***************************************************************************)
(* The timer's steps.                                                      *)
(***************************************************************************)
\* The delays that have not expired yet.
Pending == {i \in DOMAIN armed : ~armed[i].fired}

MinOf(S) == CHOOSE m \in S : \A n \in S : m <= n

\* The stream is polled: from the start ("polled"), or by Timer::run after
\* the stream has yielded None for a Stop ("stopped").
Polled == status \in {"polled", "stopped"}

\* Timer::poll_next, self.event is ready with an event the SMR has sent.
\* Stop ends the stream: a loop that stops at None (as in the tests) polls
\* no more, Timer::run polls it again all the same.  Any other event goes
\* to set_timer, which spawns a TimeoutInfo with the interval.
PollEvent(event) ==
    /\ Polled
    /\ nevents < MaxEvents
    /\ LET r == set_timer(timer, event)
       IN  IF event.kind = "Stop"
           THEN /\ status' \in {"stopped", "ended"}
                /\ tlast' = TStep("stop", 0, Some(event), timer, None, Len(armed), Len(smr))
                /\ UNCHANGED <<timer, armed>>
           ELSE /\ timer' = r.timer
                /\ armed' = (IF r.delay = None THEN armed
                             ELSE Append(armed, [info |-> event, at |-> now,
                                                 deadline |-> now + r.delay[1],
                                                 fired |-> FALSE]))
                /\ tlast' = TStep("set_timer", Len(armed'), Some(event), timer, r.delay,
                                 Len(armed), Len(smr))
                /\ UNCHANGED status
    /\ nevents' = nevents + 1
    /\ UNCHANGED <<notify_ch, smr, now, nwaits>>
    /\ UNCHANGED <<cvars, svars, bvars>>

\* Timer::poll_next, self.event is ready with None: the senders of the
\* event channel are gone.  The stream yields the error "Channel dropped"
\* before it looks at the notify channel.  A loop that panics on an error
\* (as in the tests) polls no more; Timer::run logs the error and polls
\* again.
EventDropped ==
    /\ Polled
    /\ nevents < MaxEvents
    /\ status' \in {"dropped", "ended"}
    /\ tlast' = TStep("dropped", 0, None, timer, None, Len(armed), Len(smr))
    /\ nevents' = nevents + 1
    /\ UNCHANGED <<timer, armed, notify_ch, smr, now, nwaits>>
    /\ UNCHANGED <<cvars, svars, bvars>>

\* Timer::run polls the stream again after the error: the event channel is
\* ready with None once more (or the receiver panics at a poll after None,
\* which ends the task), and the notify channel is not reached.
PollDropped ==
    /\ status = "dropped"
    /\ status' \in {"dropped", "ended"}
    /\ tlast' = TStep("dropped_again", 0, None, timer, None, Len(armed), Len(smr))
    /\ UNCHANGED <<timer, armed, notify_ch, smr, now, nevents, nwaits>>
    /\ UNCHANGED <<cvars, svars, bvars>>

\* TimeoutInfo::poll, the Delay is ready: the event is sent into the notify
\* channel (the send fails silently once the timer is gone).
Expire(i) ==
    /\ i \in Pending
    /\ armed[i].deadline <= now
    /\ armed' = [armed EXCEPT ![i].fired = TRUE]
    /\ notify_ch' = (IF status = "ended" THEN notify_ch ELSE Append(notify_ch, i))
    /\ tlast' = EnvStep("expire")
    /\ UNCHANGED <<timer, status, smr, now, nevents, nwaits>>
    /\ UNCHANGED <<cvars, svars, bvars>>

\* Timer::poll_next, self.notify is ready: the expired event goes to
\* trigger, which hands the SMR a trigger or drops the timeout.
PollNotify ==
    /\ Polled
    /\ notify_ch # <<>>
    /\ LET id == Head(notify_ch)
           r == trigger(timer, armed[id].info)
       IN  /\ smr' = (IF r.out = None THEN smr ELSE Append(smr, r.out[1]))
           /\ tlast' = TStep("trigger", id, Some(armed[id].info), timer, r.out,
                            Len(armed), Len(smr))
    /\ notify_ch' = Tail(notify_ch)
    /\ UNCHANGED <<timer, status, armed, now, nevents, nwaits>>
    /\ UNCHANGED <<cvars, svars, bvars>>

\* The timer task handles the timeouts that are queued, and a delay that
\* is due expires, before time moves on.
Settled ==
    /\ Polled => notify_ch = <<>>
    /\ \A i \in Pending : armed[i].deadline > now

\* Time passes until the next delay is due.
Advance ==
    /\ Settled
    /\ Pending # {}
    /\ now' = MinOf({armed[i].deadline : i \in Pending})
    /\ tlast' = EnvStep("advance")
    /\ UNCHANGED <<timer, status, armed, notify_ch, smr, nevents, nwaits>>
    /\ UNCHANGED <<cvars, svars, bvars>>

\* One interval passes with no delay due in it.
Wait ==
    /\ Settled
    /\ nwaits < MaxWaits
    /\ \A i \in Pending : now + timer.config.interval < armed[i].deadline
    /\ now' = now + timer.config.interval
    /\ nwaits' = nwaits + 1
    /\ tlast' = EnvStep("wait")
    /\ UNCHANGED <<timer, status, armed, notify_ch, smr, nevents>>
    /\ UNCHANGED <<cvars, svars, bvars>>

TimerNext ==
    \/ \E event \in SMREvents : PollEvent(event)
    \/ EventDropped
    \/ PollDropped
    \/ \E i \in DOMAIN armed : Expire(i)
    \/ PollNotify
    \/ Advance
    \/ Wait

TimerSpec == Init /\ [][TimerNext]_vars

(***************************************************************************)
(* The steps of the authorities.  F is the set of faulty authorities whose *)
(* messages are in play: a faulty authority signs anything, so its         *)
(* proposals and votes are at hand whenever they help.                     *)
(***************************************************************************)
\* The authorities whose vote of the type for the vote is among the votes.
Supporters(vs, type, vote) == {v.voter : v \in {w \in vs : w.type = type /\ w.vote = vote}}

\* The driver: the QCs there are once the votes vs are cast.  When the
\* cumulative weight of the votes for one hash reaches the threshold, the
\* signatures are aggregated into a QC; a QC that was formed stays.
FormQC(formed, vs, F) ==
    formed \cup
    {QCNew(v.type, v.vote) :
        v \in {w \in vs : WeightOf(Supporters(vs, w.type, w.vote) \cup F) >= threshold}}

\* n casts a vote, which the drivers count.
Cast(n, type, vote, F) ==
    /\ cast_votes' = cast_votes \cup {SignedSmrVote(type, vote, n)}
    /\ qcs' = FormQC(qcs, cast_votes', F)

\* The block a proposer that holds no lock creates for (height, round).
create_block(height, round) == ((height + round) % NumBlocks) + 1

\* The proposals a faulty proposer of (height, round) can send.
Forged(height, round, F) ==
    IF Proposer(height, round) \in F
    THEN {ProposalNew(height, round, b, lock, Proposer(height, round)) :
             b \in BlockHashes, lock \in {None} \cup {Some(qc) : qc \in qcs}}
    ELSE {}

\* Enter round r as its proposer: propose a new block, or the locked block
\* with the stored PreVoteQC as lock, and act as if the proposal arrived.
SmrPropose(n, F) ==
    /\ node[n].step = "Propose"
    /\ Proposer(node[n].height, node[n].round) = n
    /\ LET st == node[n]
           p == IF st.lock = None
                THEN ProposalNew(st.height, st.round, create_block(st.height, st.round),
                                 None, n)
                ELSE ProposalNew(st.height, st.round, st.lock[1].vote.block_hash,
                                 st.lock, n)
           r == on_proposal(st, p)
       IN  /\ proposals' = proposals \cup {p}
           /\ node' = [node EXCEPT ![n] = r.smr]
           /\ Cast(n, "PreVote", r.vote, F)
    /\ UNCHANGED <<commits, ntimeouts>>
    /\ UNCHANGED <<cvars, tvars, bvars>>

\* On SignedProposal at (H, r) from the round's proposer.
OnProposal(n, F) ==
    /\ node[n].step = "Propose"
    /\ Proposer(node[n].height, node[n].round) # n
    /\ \E p \in proposals \cup Forged(node[n].height, node[n].round, F) :
          /\ p.height = node[n].height
          /\ p.round = node[n].round
          /\ valid_proposal(p, qcs)
          /\ LET r == on_proposal(node[n], p)
             IN  /\ node' = [node EXCEPT ![n] = r.smr]
                 /\ Cast(n, "PreVote", r.vote, F)
    /\ UNCHANGED <<commits, proposals, ntimeouts>>
    /\ UNCHANGED <<cvars, tvars, bvars>>

\* A timeout is timely when the message the step waits for cannot come: the
\* proposer of the round is a faulty authority that stays silent.
Timely(st, F) ==
    /\ st.step = "Propose"
    /\ Proposer(st.height, st.round) \in Faulty \ F

\* The timer armed in the current step expires: Timer::trigger hands the SMR
\* its trigger.  Under synchrony (sync) only a timely timer expires.
Timeout(n, F, sync) ==
    /\ ArmedEvent(node[n]) # None
    /\ ntimeouts < MaxTimeouts
    /\ sync => Timely(node[n], F)
    /\ node[n].step = "Propose" => Proposer(node[n].height, node[n].round) # n
    /\ LET out == trigger(TimerOf(node[n]), ArmedEvent(node[n])[1]).out
       IN  /\ out # None
           /\ LET r == on_timer_trigger(node[n], out[1])
              IN  /\ r.vote # None
                  /\ node' = [node EXCEPT ![n] = r.smr]
                  /\ Cast(n, r.vote[1].type, r.vote[1].vote, F)
    /\ ntimeouts' = ntimeouts + 1
    /\ UNCHANGED <<commits, proposals>>
    /\ UNCHANGED <<cvars, tvars, bvars>>

\* The brake timer expires: broadcast SignedChoke(H, r).
BrakeTimeout(n, F) ==
    /\ node[n].step = "Brake"
    /\ SignedSmrVote("Choke", empty_vote(node[n].height, node[n].round), n)
          \notin cast_votes
    /\ Cast(n, "Choke", empty_vote(node[n].height, node[n].round), F)
    /\ UNCHANGED <<node, commits, proposals, ntimeouts>>
    /\ UNCHANGED <<cvars, tvars, bvars>>

\* A QC of the SMR's height that is of its round or of a later one.
Receivable(st, qc, type) ==
    /\ qc.type = type
    /\ qc.vote.height = st.height
    /\ qc.vote.round >= st.round
    /\ st.step # "Commit"

\* On PreVoteQC at (H, r), or at a later round the SMR jumps to.
OnPreVoteQC(n, qc, F) ==
    /\ qc \in qcs
    /\ Receivable(node[n], qc, "PreVote")
    /\ qc.vote.round = node[n].round => node[n].step \in {"Propose", "PreVote"}
    /\ LET r == on_pre_vote_qc(node[n], qc)
       IN  /\ node' = [node EXCEPT ![n] = r.smr]
           /\ Cast(n, "PreCommit", r.vote, F)
    /\ UNCHANGED <<commits, proposals, ntimeouts>>
    /\ UNCHANGED <<cvars, tvars, bvars>>

\* On PreCommitQC at (H, r), or at a later round the SMR jumps to.
OnPreCommitQC(n, qc) ==
    /\ qc \in qcs
    /\ Receivable(node[n], qc, "PreCommit")
    /\ LET r == on_pre_commit_qc(node[n], qc)
       IN  /\ r.smr # node[n]
           /\ node' = [node EXCEPT ![n] = r.smr]
           /\ commits' = [commits EXCEPT ![n] = IF r.commit = None THEN @
                                                ELSE Append(@, r.commit[1])]
    /\ UNCHANGED <<proposals, cast_votes, qcs, ntimeouts>>
    /\ UNCHANGED <<cvars, tvars, bvars>>

\* On ChokeQC at (H, r), or at a later round.
OnChokeQC(n, qc) ==
    /\ qc \in qcs
    /\ Receivable(node[n], qc, "Choke")
    /\ qc.vote.round < MaxSmrRound
    /\ node' = [node EXCEPT ![n] = on_choke_qc(node[n], qc)]
    /\ UNCHANGED <<commits, proposals, cast_votes, qcs, ntimeouts>>
    /\ UNCHANGED <<cvars, tvars, bvars>>

\* A driver that initializes the SMR of the committed height anew.
NextHeight_same_height(n) ==
    /\ node[n].step = "Commit"
    /\ node[n].height < MaxSmrHeight
    /\ node' = [node EXCEPT ![n] = SmrNew(node[n].height)]
    /\ UNCHANGED <<commits, proposals, cast_votes, qcs, ntimeouts>>
    /\ UNCHANGED <<cvars, tvars, bvars>>

\* The driver after a commit: initialize the SMR of the next height.
NextHeight(n) ==
    /\ node[n].step = "Commit"
    /\ node[n].height < MaxSmrHeight
    /\ node' = [node EXCEPT ![n] = SmrNew(node[n].height + 1)]
    /\ UNCHANGED <<commits, proposals, cast_votes, qcs, ntimeouts>>
    /\ UNCHANGED <<cvars, tvars, bvars>>

\* One height with the faulty authority's messages in play and timers that
\* may expire at any moment.
SmrNext ==
    \/ \E n \in Honest : SmrPropose(n, Faulty)
    \/ \E n \in Honest : OnProposal(n, Faulty)
    \/ \E n \in Honest : Timeout(n, Faulty, FALSE)
    \/ \E n \in Honest : BrakeTimeout(n, Faulty)
    \/ \E n \in Honest, qc \in qcs : OnPreVoteQC(n, qc, Faulty)
    \/ \E n \in Honest, qc \in qcs : OnPreCommitQC(n, qc)
    \/ \E n \in Honest, qc \in qcs : OnChokeQC(n, qc)

SmrSpec == Init /\ [][SmrNext]_vars

\* The heights in turn with a silent faulty authority, under synchrony.
SmrLiveNext ==
    \/ \E n \in Honest : SmrPropose(n, {})
    \/ \E n \in Honest : OnProposal(n, {})
    \/ \E n \in Honest : Timeout(n, {}, TRUE)
    \/ \E n \in Honest : BrakeTimeout(n, {})
    \/ \E n \in Honest, qc \in qcs : OnPreVoteQC(n, qc, {})
    \/ \E n \in Honest, qc \in qcs : OnPreCommitQC(n, qc)
    \/ \E n \in Honest, qc \in qcs : OnChokeQC(n, qc)
    \/ \E n \in Honest : NextHeight(n)

\* Every message that is sent arrives and every timer that is armed expires:
\* each step that stays possible is taken.
SmrLiveSpec == Init /\ [][SmrLiveNext]_vars /\ WF_vars(SmrLiveNext)

(***************************************************************************)
(* The round trip of a block through Block::encode and Block::decode, as   *)
(* test_block_serialization makes it.                                      *)
(***************************************************************************)
\* The values a field of the bounded blocks can take.
FieldValues(f) ==
    CASE f = "pre_hash" -> BlkBytes
      [] f = "height" -> BlkInts
      [] f = "exec_height" -> BlkInts
      [] f = "pre_proof" -> BlkProofs
      [] f = "state_root" -> BlkStateRoots
      [] f = "receipt_roots" -> BlkRoots
      [] f = "tx" -> BlkConfigs

\* The test takes another block: one field of the block at hand is changed.
NewBlock(f, v) ==
    /\ v # blk[f]
    /\ blk' = [blk EXCEPT ![f] = v]
    /\ encoded' = None
    /\ decoded' = None
    /\ UNCHANGED <<cvars, tvars, svars>>

\* let encode = block.encode().unwrap()
BlockEncode ==
    /\ encoded = None
    /\ encoded' = Some(encode(blk))
    /\ UNCHANGED <<blk, decoded>>
    /\ UNCHANGED <<cvars, tvars, svars>>

\* let decode = Block::decode(&encode).unwrap()
BlockDecode ==
    /\ encoded # None
    /\ decoded = None
    /\ decoded' = Some(decode(encoded[1]))
    /\ UNCHANGED <<blk, encoded>>
    /\ UNCHANGED <<cvars, tvars, svars>>

BlockNext ==
    \/ \E f \in DOMAIN blk : \E v \in FieldValues(f) : NewBlock(f, v)
    \/ BlockEncode
    \/ BlockDecode

BlockSpec == Init /\ [][BlockNext]_vars


(***************************************************************************)
(* Vocabulary of the properties.                                           *)
(***************************************************************************)
TypeOfKind(kind) ==
    CASE kind = "SignedPreVote"   -> "PreVote"
      [] kind = "SignedPreCommit" -> "PreCommit"
      [] kind = "SignedChoke"     -> "Choke"

IsVoteKind(kind) == kind \in SignedVoteKinds \cup {"SignedChoke"}

\* The signed messages of a vote type a grid stores, by voter.
StoredOf(grid, type) ==
    CASE type = "PreVote"   -> grid.signed_pre_votes
      [] type = "PreCommit" -> grid.signed_pre_commits
      [] type = "Choke"     -> grid.signed_chokes

\* The message stored in the slot of (height, round) that `data` would take:
\* the proposal, the QC of the same phase, or the same voter's message of
\* the same type.
StoredSlot(cab, height, round, data) ==
    LET g == GridAt(cab, height, round)
    IN  IF g = None THEN None
        ELSE CASE data.kind = "SignedProposal" -> g[1].signed_proposal
               [] data.kind = "PreVoteQC"      -> g[1].pre_vote_qc
               [] data.kind = "PreCommitQC"    -> g[1].pre_commit_qc
               [] data.kind = "ChokeQC"        -> g[1].choke_qc
               [] OTHER -> MapGet(StoredOf(g[1], TypeOfKind(data.kind)), data.msg.voter)

\* The maximum a grid records for a vote type.
GridMaxOf(grid, type) ==
    CASE type = "PreVote"   -> grid.pre_vote_max_vote_weight
      [] type = "PreCommit" -> grid.pre_commit_max_vote_weight
      [] type = "Choke"     -> grid.choke_vote_weight

\* The maximum a drawer records for a vote type.
DrawerMaxOf(drawer, type) ==
    CASE type = "PreVote"   -> drawer.pre_vote_max_vote_weight
      [] type = "PreCommit" -> drawer.pre_commit_max_vote_weight
      [] type = "Choke"     -> drawer.choke_max_vote_weight

\* The block hashes a cumulative weight is kept for: Some(hash) for the
\* votes, None (the single total) for the chokes.
HashKeys(type) == IF type = "Choke" THEN {None} ELSE {Some(x) : x \in Hashes}

\* The cumulative weight the cabinet tracks for (height, round, type, hash);
\* 0 where it tracks none.
CumAt(cab, height, round, type, key) ==
    LET g == GridAt(cab, height, round)
    IN  IF g = None THEN 0
        ELSE CASE type = "PreVote" ->
                    IF key[1] \in DOMAIN g[1].pre_vote_vote_weights
                    THEN g[1].pre_vote_vote_weights[key[1]] ELSE 0
               [] type = "PreCommit" ->
                    IF key[1] \in DOMAIN g[1].pre_commit_vote_weights
                    THEN g[1].pre_commit_vote_weights[key[1]] ELSE 0
               [] type = "Choke" -> g[1].choke_vote_weight.cum_weight

MaxOf(S) == IF S = {} THEN 0 ELSE CHOOSE m \in S : \A n \in S : n <= m

\* The largest cumulative weight tracked at (height, round) for a type.
MaxCumAt(cab, height, round, type) ==
    MaxOf({CumAt(cab, height, round, type, key) : key \in HashKeys(type)})

\* The largest cumulative weight tracked at any round of a height.
MaxCumAtHeight(cab, height, type) ==
    MaxOf({MaxCumAt(cab, height, round, type) : round \in Rounds})

\* The largest maximum the grids of a height record for a type.
MaxRecordedAtHeight(cab, height, type) ==
    IF height \notin DOMAIN cab THEN 0
    ELSE MaxOf({GridMaxOf(cab[height].collectors[round], type).cum_weight :
                    round \in DOMAIN cab[height].collectors})

\* The sum of the vote weights of the messages of a type stored at
\* (height, round) for a hash key, as a mathematical integer.
SumStored(cab, height, round, type, key) ==
    LET g == GridAt(cab, height, round)
        votes == IF g = None THEN EmptyMap ELSE StoredOf(g[1], type)
        mine == {v \in DOMAIN votes : type = "Choke" \/ votes[v].block_hash = key[1]}
        sum[vs \in SUBSET mine] ==
            IF vs = {} THEN 0
            ELSE LET v == CHOOSE u \in vs : TRUE
                 IN  votes[v].vote_weight + sum[vs \ {v}]
    IN  sum[mine]

\* No sum of vote weights of the type at the height has passed u32::MAX.
NoWrapAt(cab, height, type) ==
    \A round \in Rounds, key \in HashKeys(type) :
        SumStored(cab, height, round, type, key) <= MaxWeight

\* The last call was a successful insert of a signed vote or choke.
VoteInserted == last.op = "insert" /\ IsVoteKind(last.data[1].kind) /\ IsOk(last.result)

\* The hash key of a signed vote or choke.
KeyOf(data) == IF data.kind = "SignedChoke" THEN None ELSE Some(data.msg.block_hash)

\* The maximum the drawer of a height records for a type, CumWeight::default()
\* where the height has no drawer.
HeightMaxOf(cab, height, type) ==
    IF height \in DOMAIN cab THEN DrawerMaxOf(cab[height], type) ELSE CumWeightDefault

\* The proposal or QC the getter of a capsule kind returns at (height, round).
GetOf(cab, height, round, kind) ==
    CASE kind = "SignedProposal" -> get_signed_proposal(cab, height, round)
      [] kind = "PreVoteQC"      -> get_pre_vote_qc(cab, height, round)
      [] kind = "PreCommitQC"    -> get_pre_commit_qc(cab, height, round)
      [] kind = "ChokeQC"        -> get_choke_qc(cab, height, round)

\* The maximum the grid of (height, round) records for a type,
\* CumWeight::default() where there is no grid.
GridMaxAt(cab, height, round, type) ==
    LET g == GridAt(cab, height, round)
    IN  IF g = None THEN CumWeightDefault ELSE GridMaxOf(g[1], type)

\* The last call was Cabinet::insert: `prev` is the cabinet it was made on,
\* `cabinet` the cabinet it left.
Inserted == last.op = "insert"

\* How often voter v occurs in the by-hash lists of a grid.
Occurrences(sets, v) ==
    LET count[xs \in SUBSET (DOMAIN sets)] ==
            IF xs = {} THEN 0
            ELSE LET x == CHOOSE y \in xs : TRUE
                 IN  Cardinality({i \in DOMAIN sets[x] : sets[x][i].voter = v})
                     + count[xs \ {x}]
    IN  count[DOMAIN sets]

AllGrids(cab) ==
    {cab[p[1]].collectors[p[2]] : p \in {q \in Heights \X Rounds :
        q[1] \in DOMAIN cab /\ q[2] \in DOMAIN cab[q[1]].collectors}}

(***************************************************************************)
(* C1: once a voter's pre-vote (pre-commit, choke) is stored at (h, r), an *)
(* insert at (h, r) of a message of the same type from the same voter that *)
(* differs in any field returns Err(InsertDiff) and leaves the first       *)
(* message stored; no grid ever holds two messages of one type from one    *)
(* voter, neither in its by-voter map nor in its by-hash lists.            *)
(***************************************************************************)
C1_EquivocationRejected ==
    /\ Inserted /\ IsVoteKind(last.data[1].kind) =>
          LET h == last.height
              r == last.round
              d == last.data[1]
              stored == StoredSlot(prev, h, r, d)
          IN  stored # None /\ stored[1] # d.msg =>
                /\ last.result = ErrInsertDiff(Capsule(d.kind, stored[1]), d)
                /\ StoredSlot(cabinet, h, r, d) = stored
    /\ \A g \in AllGrids(cabinet) :
          /\ \A t \in VoteTypes : \A v \in DOMAIN StoredOf(g, t) : StoredOf(g, t)[v].voter = v
          /\ \A v \in Voters :
                /\ Occurrences(g.pre_vote_sets, v) <= 1
                /\ Occurrences(g.pre_commit_sets, v) <= 1

\* A choke that differs from the stored one in its signature alone was
\* rejected as InsertDiff.
C1_Witness ==
    /\ Inserted
    /\ last.result.tag = "InsertDiff"
    /\ last.data[1].kind = "SignedChoke"
    /\ StoredSlot(prev, last.height, last.round, last.data[1])
         = Some([last.data[1].msg EXCEPT !.signature = 1])
    /\ last.data[1].msg.signature = 2

(***************************************************************************)
(* C2: an insert at (h, r) of a message identical to the one stored in its *)
(* slot (the proposal, the QC of that phase, the voter's message of that   *)
(* type) returns Err(AlreadyExists).                                       *)
(***************************************************************************)
C2_IdenticalReinsert ==
    Inserted =>
        LET h == last.height
            r == last.round
            d == last.data[1]
        IN  StoredSlot(prev, h, r, d) = Some(d.msg) => last.result = ErrAlreadyExists(d)

\* A PreCommitQC was inserted a second time and reported AlreadyExists.
C2_Witness ==
    /\ Inserted
    /\ last.data[1].kind = "PreCommitQC"
    /\ last.result.tag = "AlreadyExists"
    /\ get_pre_commit_qc(prev, last.height, last.round) = Some(last.data[1].msg)

(***************************************************************************)
(* C3: an insert that returns Err(AlreadyExists) or Err(InsertDiff) leaves *)
(* the cabinet as it was: the same drawers and grids with the same         *)
(* content, hence the same answer to every query and the same weights for  *)
(* the next insert.                                                        *)
(***************************************************************************)
C3_ErrorLeavesCabinet ==
    Inserted /\ IsErr(last.result) => cabinet = prev

\* A pre-vote was rejected in a grid that tracks a positive pre-vote weight.
C3_Witness ==
    /\ Inserted
    /\ last.data[1].kind = "SignedPreVote"
    /\ IsErr(last.result)
    /\ LET g == GridAt(cabinet, last.height, last.round)[1]
       IN  g.pre_vote_max_vote_weight.cum_weight > 0

(***************************************************************************)
(* C4 as claimed: a successful insert of a signed pre-vote, pre-commit or  *)
(* choke at (h, r) returns Ok(Some(w)) with w the maximum cumulative       *)
(* weight at that same (h, r) for that vote type, over all block hashes,   *)
(* after the insert.                                                       *)
(***************************************************************************)
C4_MaxAtSameRound ==
    VoteInserted =>
        /\ last.result.value # None
        /\ last.result.value[1].cum_weight
             = MaxCumAt(cabinet, last.height, last.round, TypeOfKind(last.data[1].kind))

(***************************************************************************)
(* C4 as amended: a successful insert of a signed pre-vote, pre-commit or  *)
(* choke at (h, r) returns Ok(Some(w)) with w the maximum the drawer of h  *)
(* records, over all rounds of height h and all block hashes, for the vote *)
(* type w carries: no cumulative weight tracked at any round of h for that *)
(* type is larger, w is the recorded maximum of one of the rounds, and w   *)
(* equals the largest tracked weight of the height unless a u32 sum has    *)
(* wrapped.  w carries the inserted message's type whenever that type has  *)
(* a positive recorded maximum at (h, r), and PreVote otherwise.           *)
(***************************************************************************)
C4_MaxAtHeight ==
    VoteInserted =>
        /\ last.result.value # None
        /\ LET h == last.height
               r == last.round
               t == TypeOfKind(last.data[1].kind)
               w == last.result.value[1]
           IN  /\ w = DrawerMaxOf(cabinet[h], w.vote_type)
               /\ w.cum_weight = MaxRecordedAtHeight(cabinet, h, w.vote_type)
               /\ w.cum_weight >= MaxCumAtHeight(cabinet, h, w.vote_type)
               /\ NoWrapAt(cabinet, h, w.vote_type)
                    => w.cum_weight = MaxCumAtHeight(cabinet, h, w.vote_type)
               /\ w.cum_weight > 0 =>
                    \E r2 \in DOMAIN cabinet[h].collectors :
                        w = GridMaxOf(cabinet[h].collectors[r2], w.vote_type)
               /\ IF GridMaxOf(cabinet[h].collectors[r], t).cum_weight > 0
                  THEN w.vote_type = t
                  ELSE w.vote_type = "PreVote"

\* A pre-commit inserted at one round was answered with the larger maximum
\* of another round of the height.
C4_Witness ==
    /\ VoteInserted
    /\ last.data[1].kind = "SignedPreCommit"
    /\ last.result.value[1].vote_type = "PreCommit"
    /\ last.result.value[1].cum_weight
         > MaxCumAt(cabinet, last.height, last.round, "PreCommit")
    /\ MaxCumAt(cabinet, last.height, last.round, "PreCommit") > 0

(***************************************************************************)
(* C5: within one height, the CumWeight a successful vote or choke insert  *)
(* returns is the largest cumulative weight reached so far at any round of *)
(* that height for the inserted message's vote type; when the weight the   *)
(* insert reaches at its round is below the maximum another round reached  *)
(* before, the CumWeight of that other round is returned unchanged.        *)
(***************************************************************************)
C5_LargestOfHeightForType ==
    VoteInserted =>
        LET h == last.height
            r == last.round
            t == TypeOfKind(last.data[1].kind)
            w == last.result.value[1]
            before == IF h \in DOMAIN prev THEN DrawerMaxOf(prev[h], t) ELSE CumWeightDefault
        IN  /\ w.cum_weight = MaxRecordedAtHeight(cabinet, h, t)
            /\ GridMaxOf(cabinet[h].collectors[r], t).cum_weight < before.cum_weight
                 => w = before

(***************************************************************************)
(* C6 as claimed: for every (height, round, vote type, block hash) and     *)
(* threshold T, the insert that first raises that cumulative weight to at  *)
(* least T returns a CumWeight with that round, that hash and a weight of  *)
(* at least T.                                                             *)
(***************************************************************************)
C6_SignalAtFirstCrossing ==
    VoteInserted =>
        LET h == last.height
            r == last.round
            d == last.data[1]
            t == TypeOfKind(d.kind)
            w == last.result.value[1]
            before == CumAt(prev, h, r, t, KeyOf(d))
            after  == CumAt(cabinet, h, r, t, KeyOf(d))
        IN  \A T \in 1..MaxWeight :
                before < T /\ after >= T =>
                    /\ w.round = d.msg.round
                    /\ w.block_hash = KeyOf(d)
                    /\ w.cum_weight >= T

(***************************************************************************)
(* What Drawer::insert does signal: for every (height, round, vote type,   *)
(* block hash) and threshold T >= 1, the insert that first raises that     *)
(* cumulative weight                                                       *)
(* to at least T returns a CumWeight of that vote type with a weight of at *)
(* least T; it carries that hash and the round of the inserted vote only   *)
(* when the new weight is larger than every maximum the height recorded    *)
(* before for that type, and otherwise it is the previous maximum of the   *)
(* height (of another round or hash) unchanged.  No insert returns a       *)
(* CumWeight that is new unless it is the weight just reached by the       *)
(* inserted vote, and none returns a weight of T or more while the         *)
(* recorded maxima of the height for the returned type are below T.        *)
(***************************************************************************)
SignalAtNewMaximum ==
    VoteInserted =>
        LET h == last.height
            r == last.round
            d == last.data[1]
            t == TypeOfKind(d.kind)
            w == last.result.value[1]
            before == CumAt(prev, h, r, t, KeyOf(d))
            after  == CumAt(cabinet, h, r, t, KeyOf(d))
            reached == CumWeightNew(after, t, d.msg.round, KeyOf(d))
        IN  /\ \A T \in 1..MaxWeight :
                  /\ before < T /\ after >= T =>
                        /\ w.vote_type = t
                        /\ w.cum_weight >= T
                        /\ IF after > HeightMaxOf(prev, h, t).cum_weight
                           THEN w = reached
                           ELSE w = HeightMaxOf(prev, h, t)
                  /\ MaxRecordedAtHeight(cabinet, h, w.vote_type) < T => w.cum_weight < T
            /\ w # HeightMaxOf(prev, h, w.vote_type) => w = reached /\ after > before

\* A second vote raised a cumulative weight from 1 to 2 and the insert
\* returned that round and hash with weight 2.
SignalAtNewMaximum_Reached ==
    /\ VoteInserted
    /\ last.data[1].kind = "SignedPreVote"
    /\ CumAt(prev, last.height, last.round, "PreVote", KeyOf(last.data[1])) = 1
    /\ CumAt(cabinet, last.height, last.round, "PreVote", KeyOf(last.data[1])) = 2
    /\ last.result.value[1]
         = CumWeightNew(2, "PreVote", last.round, KeyOf(last.data[1]))

(***************************************************************************)
(* C7: for every (height, round, vote type, block hash), the cumulative    *)
(* weight the cabinet tracks never decreases over an insert (successful or *)
(* failed), and the weight a successful insert of a vote or choke reports  *)
(* is not below the weight tracked before for that vote's (height, round,  *)
(* type, hash).                                                            *)
(***************************************************************************)
C7_WeightsNeverDecrease ==
    Inserted =>
        /\ \A h \in Heights, r \in Rounds, t \in VoteTypes : \A key \in HashKeys(t) :
              CumAt(cabinet, h, r, t, key) >= CumAt(prev, h, r, t, key)
        /\ VoteInserted =>
              last.result.value[1].cum_weight
                 >= CumAt(prev, last.height, last.round,
                          TypeOfKind(last.data[1].kind), KeyOf(last.data[1]))

(***************************************************************************)
(* C8: every grid stores at most one PreVoteQC, one PreCommitQC and one    *)
(* ChokeQC; an insert at (h, r) of a QC that differs from the QC of the    *)
(* same phase stored there returns an error, and the getter still returns  *)
(* the first QC.                                                           *)
(***************************************************************************)
C8_SecondQCRejected ==
    /\ \A g \in AllGrids(cabinet) :
          Len(g.pre_vote_qc) <= 1 /\ Len(g.pre_commit_qc) <= 1 /\ Len(g.choke_qc) <= 1
    /\ Inserted /\ last.data[1].kind \in QCKinds =>
          LET h == last.height
              r == last.round
              d == last.data[1]
              stored == GetOf(prev, h, r, d.kind)
          IN  stored # None /\ stored[1] # d.msg =>
                /\ IsErr(last.result)
                /\ GetOf(cabinet, h, r, d.kind) = stored

\* A PreVoteQC for another block hash was offered at a (h, r) that holds a
\* PreVoteQC, and was refused.
C8_Witness ==
    /\ Inserted
    /\ last.data[1].kind = "PreVoteQC"
    /\ get_pre_vote_qc(prev, last.height, last.round) # None
    /\ get_pre_vote_qc(prev, last.height, last.round)[1].block_hash
         # last.data[1].msg.block_hash
    /\ IsErr(last.result)

(***************************************************************************)
(* C9: the first insert of a signed proposal, PreVoteQC, PreCommitQC or    *)
(* ChokeQC into an empty slot at (h, r) returns Ok(None) and changes no    *)
(* cumulative vote weight of any type: neither a tracked weight nor a      *)
(* maximum of a grid or of a drawer.                                       *)
(***************************************************************************)
C9_FirstInsertOkNone ==
    Inserted /\ ~IsVoteKind(last.data[1].kind)
             /\ GetOf(prev, last.height, last.round, last.data[1].kind) = None =>
        /\ last.result = Ok(None)
        /\ \A h \in Heights, t \in VoteTypes :
              /\ HeightMaxOf(cabinet, h, t) = HeightMaxOf(prev, h, t)
              /\ \A r \in Rounds :
                    /\ GridMaxAt(cabinet, h, r, t) = GridMaxAt(prev, h, r, t)
                    /\ \A key \in HashKeys(t) :
                          CumAt(cabinet, h, r, t, key) = CumAt(prev, h, r, t, key)

\* A first proposal was inserted at a (h, r) that tracks a positive pre-vote
\* weight.
C9_Witness ==
    /\ Inserted
    /\ last.data[1].kind = "SignedProposal"
    /\ get_signed_proposal(prev, last.height, last.round) = None
    /\ MaxCumAt(prev, last.height, last.round, "PreVote") > 0
    /\ last.result = Ok(None)

(***************************************************************************)
(* C10: after a successful insert of a proposal or QC x at (h, r) the      *)
(* matching getter at (h, r) returns x; and what a getter returns at       *)
(* (h, r) stays what it was over every insert, every pop of another height *)
(* and every remove_below(h') with h' <= h.                                *)
(***************************************************************************)
C10_GetterReturnsInserted ==
    /\ Inserted /\ ~IsVoteKind(last.data[1].kind) /\ IsOk(last.result) =>
          GetOf(cabinet, last.height, last.round, last.data[1].kind) = Some(last.data[1].msg)
    /\ \A h \in Heights, r \in Rounds, k \in CapsuleKinds :
          /\ ~IsVoteKind(k)
          /\ GetOf(prev, h, r, k) # None
          /\ ~(last.op = "pop" /\ last.height = h)
          /\ ~(last.op = "remove_below" /\ last.height > h)
          => GetOf(cabinet, h, r, k) = GetOf(prev, h, r, k)

\* remove_below(h) was called on a cabinet that holds a proposal at height
\* h and a drawer below h, and the proposal is still returned.
C10_Witness ==
    /\ last.op = "remove_below"
    /\ DOMAIN prev # DOMAIN cabinet
    /\ \E r \in Rounds :
          /\ get_signed_proposal(prev, last.height, r) # None
          /\ get_signed_proposal(cabinet, last.height, r)
               = get_signed_proposal(prev, last.height, r)

\* The rounds of a height that have a grid.
RoundsAt(cab, height) ==
    IF height \in DOMAIN cab THEN DOMAIN cab[height].collectors ELSE {}

\* Every query of the cabinet at a height returns None.
AllQueriesNone(cab, height) ==
    \A r \in Rounds :
        /\ \A k \in CapsuleKinds : ~IsVoteKind(k) => GetOf(cab, height, r, k) = None
        /\ get_signed_chokes(cab, height, r) = None
        /\ \A x \in Hashes :
              /\ get_signed_pre_votes_by_hash(cab, height, r, x) = None
              /\ get_signed_pre_commits_by_hash(cab, height, r, x) = None

(***************************************************************************)
(* C11: the rounds of a height that hold a grid are the rounds that        *)
(* received an insert since the drawer was created; pop(h) returns one     *)
(* grid per such round (the grids of the drawer, each once) and removes    *)
(* the drawer of h, so that every query at h returns None and a second     *)
(* pop(h) finds no drawer; the drawers of all other heights are unchanged; *)
(* pop of a height with no drawer returns None and changes nothing.        *)
(***************************************************************************)
C11_PopReturnsGridsAndRemoves ==
    /\ Inserted /\ Running => last.round \in RoundsAt(cabinet, last.height)
    /\ \A h \in Heights :
          RoundsAt(cabinet, h) \subseteq
              RoundsAt(prev, h) \cup (IF Inserted /\ last.height = h THEN {last.round} ELSE {})
    /\ last.op = "pop" =>
          LET h == last.height
          IN  IF h \in DOMAIN prev
              THEN /\ last.result.tag = "Ok"
                   /\ last.result.value # None
                   /\ last.result.value[1] \in ValueOrders(prev[h].collectors)
                   /\ Len(last.result.value[1]) = Cardinality(RoundsAt(prev, h))
                   /\ h \notin DOMAIN cabinet
                   /\ AllQueriesNone(cabinet, h)
                   /\ CabinetPop(cabinet, h) = cabinet
                   /\ DOMAIN cabinet = DOMAIN prev \ {h}
                   /\ \A h2 \in DOMAIN cabinet : cabinet[h2] = prev[h2]
              ELSE /\ last.result = Ok(None)
                   /\ cabinet = prev

\* pop(h) returned the grids of the two rounds that had received an insert.
C11_Witness ==
    /\ last.op = "pop"
    /\ last.height \in DOMAIN prev
    /\ Cardinality(RoundsAt(prev, last.height)) = 2
    /\ Len(last.result.value[1]) = 2

(***************************************************************************)
(* C12: remove_below(h) discards exactly the drawers of the heights below  *)
(* h: afterwards no drawer below h exists and every drawer of a height     *)
(* >= h, h itself included, is kept with the same content; a second        *)
(* remove_below(h) changes nothing more.                                   *)
(***************************************************************************)
C12_RemoveBelowExact ==
    last.op = "remove_below" =>
        /\ \A k \in DOMAIN cabinet : k >= last.height
        /\ DOMAIN cabinet = {k \in DOMAIN prev : k >= last.height}
        /\ \A k \in DOMAIN cabinet : cabinet[k] = prev[k]
        /\ CabinetRemoveBelow(cabinet, last.height) = cabinet

\* remove_below(h) dropped a drawer below h and kept the drawer of h.
C12_Witness ==
    /\ last.op = "remove_below"
    /\ last.height \in DOMAIN cabinet
    /\ \E k \in DOMAIN prev : k < last.height /\ k \notin DOMAIN cabinet

(***************************************************************************)
(* C13: a new cabinet has no drawer; the drawer of a height H appears only *)
(* with an insert at H, and every insert at H leaves a drawer at H; while  *)
(* H has no drawer every query at H and pop(H) return None; the drawer of  *)
(* H stays over every call except pop(H) and remove_below(h') with h' > H. *)
(***************************************************************************)
C13_DrawerFromFirstInsert ==
    /\ last.op = "new" => cabinet = EmptyMap
    /\ Inserted /\ Running => last.height \in DOMAIN cabinet
    /\ \A H \in Heights :
          /\ H \in DOMAIN cabinet /\ H \notin DOMAIN prev => Inserted /\ last.height = H
          /\ H \notin DOMAIN cabinet => AllQueriesNone(cabinet, H)
          /\ last.op = "pop" /\ last.height = H /\ H \notin DOMAIN prev => last.result = Ok(None)
          /\ H \in DOMAIN prev /\ H \notin DOMAIN cabinet =>
                \/ last.op = "pop" /\ last.height = H
                \/ last.op = "remove_below" /\ last.height > H

\* The first insert at a height created its drawer, next to the drawer of
\* another height, where every query had returned None before.
C13_Witness ==
    /\ Inserted
    /\ last.height \notin DOMAIN prev
    /\ DOMAIN prev # {}
    /\ AllQueriesNone(prev, last.height)
    /\ DOMAIN cabinet = DOMAIN prev \cup {last.height}

(***************************************************************************)
(* C14: the cabinet retains drawers only for heights of the window that    *)
(* starts at the bound of the last remove_below (last_committed + 1), and  *)
(* an insert for a height below that bound is dropped: it creates no       *)
(* drawer and leaves the cabinet as it was.  (The window's upper edge      *)
(* last_committed + K depends on a K the code does not define; the lower   *)
(* edge is part of the claim for every K.)                                 *)
(***************************************************************************)
C14_WindowRetained ==
    /\ \A H \in DOMAIN cabinet : H >= below
    /\ Inserted /\ last.height < below => cabinet = prev

\* The authority list of a height.  The driver hands the cabinet only the
\* signature-verified messages of the height's authorities, so the voters of
\* the messages offered to Cabinet::insert are the authorities.
AuthorityList == Voters

\* The voters of a list of signed votes.
VotersOf(list) == {list[i].voter : i \in DOMAIN list}

Older(event, tm) ==
    \/ event.epoch_id < tm.epoch_id
    \/ event.epoch_id = tm.epoch_id /\ event.round < tm.round

\* The last step of the timer was a call of Timer::trigger with an expired
\* timeout; tlast.before is the timer it was called on.
Triggered == tlast.op = "trigger"

(***************************************************************************)
(* C16: a timeout that expires for (H', r') older than the timer's current *)
(* (H, r) is dropped and no trigger reaches the SMR, for propose, pre-vote *)
(* and pre-commit timeouts alike.                                          *)
(***************************************************************************)
C16_StaleTimeoutDropped ==
    Triggered /\ Older(tlast.event[1], tlast.before) => tlast.out = None

\* The events that announce that a phase was entered.
PhaseKinds == {"NewRoundInfo", "PrevoteVote", "PrecommitVote"}

\* The trigger type that stands for an event's phase.
PhaseOf(kind) ==
    CASE kind = "NewRoundInfo"  -> "Proposal"
      [] kind = "PrevoteVote"   -> "PrevoteQC"
      [] kind = "PrecommitVote" -> "PrecommitQC"

\* The last step of the timer was a call of Timer::set_timer.
TimerSet == tlast.op = "set_timer"

\* Each phase-entered event spawned exactly one delay, for that event, and
\* a delay expires at most once.
OneDelayPerEvent ==
    /\ TimerSet /\ tlast.event[1].kind \in PhaseKinds =>
          /\ Len(armed) = tlast.narmed + 1
          /\ armed[Len(armed)].info = tlast.event[1]
          /\ ~armed[Len(armed)].fired
    /\ \A i, j \in DOMAIN notify_ch : notify_ch[i] = notify_ch[j] => i = j
    /\ \A i \in DOMAIN notify_ch : armed[notify_ch[i]].fired

(***************************************************************************)
(* C17 as claimed: every phase-entered event (new round, pre-vote,         *)
(* pre-commit) schedules exactly one single-shot delay, and when the delay *)
(* expires and is not stale exactly one trigger is handed to the SMR,      *)
(* tagged with the height, the round and the phase of the event.           *)
(***************************************************************************)
C17_OneTriggerTaggedHRP ==
    /\ OneDelayPerEvent
    /\ Triggered /\ ~Older(tlast.event[1], tlast.before) =>
          /\ Len(smr) = tlast.nsmr + 1
          /\ smr[Len(smr)].epoch_id = tlast.event[1].epoch_id
          /\ smr[Len(smr)].round = Some(tlast.event[1].round)
          /\ smr[Len(smr)].trigger_type = PhaseOf(tlast.event[1].kind)

(***************************************************************************)
(* C17 as amended: every phase-entered event schedules exactly one         *)
(* single-shot delay, and when the delay expires and is not stale exactly  *)
(* one trigger is handed to the SMR, tagged with the height and the phase  *)
(* of the event, and with its round if the event is a pre-vote or a        *)
(* pre-commit; the trigger of a propose timeout carries no round (None).   *)
(***************************************************************************)
C17_OneTriggerTagged ==
    /\ OneDelayPerEvent
    /\ Triggered /\ ~Older(tlast.event[1], tlast.before) =>
          /\ Len(smr) = tlast.nsmr + 1
          /\ smr[Len(smr)].epoch_id = tlast.event[1].epoch_id
          /\ smr[Len(smr)].round = (IF tlast.event[1].kind = "NewRoundInfo"
                                    THEN None ELSE Some(tlast.event[1].round))
          /\ smr[Len(smr)].trigger_type = PhaseOf(tlast.event[1].kind)

\* The pre-vote timeout of the timer's own height and round expired and its
\* trigger was handed to the SMR.
C17_Witness ==
    /\ Triggered
    /\ tlast.event[1].kind = "PrevoteVote"
    /\ tlast.event[1].epoch_id = tlast.before.epoch_id
    /\ tlast.event[1].round = tlast.before.round
    /\ Len(smr) = tlast.nsmr + 1

(***************************************************************************)
(* C18: the propose timeout armed on entering round r is the base propose  *)
(* duration times 2^min(r, 10), for every round r; the pre-vote and the    *)
(* pre-commit timeouts are the base durations, whatever the round.         *)
(***************************************************************************)
C18_ProposeBackoff ==
    TimerSet /\ tlast.event[1].kind \in PhaseKinds =>
        LET event == tlast.event[1]
            base == get_timeout(tlast.before.config, event)[1]
            r == event.round
        IN  tlast.out = Some(IF event.kind = "NewRoundInfo"
                             THEN base * 2^(IF r < CoefCap THEN r ELSE CoefCap)
                             ELSE base)

(***************************************************************************)
(* C19: an expired timeout that is not dropped becomes a trigger with      *)
(* source Timer, an empty hash and the event's epoch_id: type Proposal     *)
(* with round None for a NewRoundInfo event, type PrevoteQC with round     *)
(* Some(r) for PrevoteVote, type PrecommitQC with round Some(r) for        *)
(* PrecommitVote, r being the event's round; and that trigger is what the  *)
(* SMR receives.                                                           *)
(***************************************************************************)
C19_TriggerOfEvent ==
    Triggered /\ tlast.out # None =>
        LET event == tlast.event[1]
            t == tlast.out[1]
        IN  /\ t.source = "Timer"
            /\ t.hash = <<>>
            /\ t.epoch_id = event.epoch_id
            /\ event.kind = "NewRoundInfo"  => t.trigger_type = "Proposal" /\ t.round = None
            /\ event.kind = "PrevoteVote"   => t.trigger_type = "PrevoteQC" /\ t.round = <<event.round>>
            /\ event.kind = "PrecommitVote" => t.trigger_type = "PrecommitQC" /\ t.round = <<event.round>>
            /\ event.kind \in PhaseKinds
            /\ smr = Append(SubSeq(smr, 1, tlast.nsmr), t)

\* A pre-commit timeout of a height above the timer's became a PrecommitQC
\* trigger of that height.
C19_Witness ==
    /\ Triggered
    /\ tlast.out # None
    /\ tlast.event[1].kind = "PrecommitVote"
    /\ tlast.event[1].epoch_id > tlast.before.epoch_id
    /\ smr[Len(smr)].trigger_type = "PrecommitQC"

\* s is a prefix of t.
IsPrefix(s, t) == Len(s) <= Len(t) /\ \A i \in DOMAIN s : s[i] = t[i]

\* NewRoundInfo, PrevoteVote and PrecommitVote of height e and round 0 were
\* handled back to back, in that order, before anything else.
BackToBack(e) ==
    /\ Len(armed) >= 3
    /\ armed[1].info = NewRoundInfo(e, 0)
    /\ armed[2].info = PrevoteVote(e, 0)
    /\ armed[3].info = PrecommitVote(e, 0)
    /\ armed[1].at = armed[2].at /\ armed[2].at = armed[3].at

(***************************************************************************)
(* C20: when NewRoundInfo, PrevoteVote and PrecommitVote events of one     *)
(* height and round 0 are handled back to back in that order, the triggers *)
(* reach the SMR in the order PrecommitQC, PrevoteQC, Proposal; timeouts   *)
(* are delivered in the order of their expiry, not of their arming: a      *)
(* delay never expires before one that is due earlier, and the expired     *)
(* timeouts wait for the timer in the order they were due.                 *)
(***************************************************************************)
C20_DeliveredInExpiryOrder ==
    /\ \A e \in TimerEpochs :
          BackToBack(e) /\ Len(armed) = 3 =>
              IsPrefix(smr, <<[source |-> "Timer", hash |-> <<>>, trigger_type |-> "PrecommitQC",
                               round |-> <<0>>, epoch_id |-> e],
                              [source |-> "Timer", hash |-> <<>>, trigger_type |-> "PrevoteQC",
                               round |-> <<0>>, epoch_id |-> e],
                              [source |-> "Timer", hash |-> <<>>, trigger_type |-> "Proposal",
                               round |-> <<>>, epoch_id |-> e]>>)
    /\ \A i, j \in DOMAIN armed :
          armed[i].deadline < armed[j].deadline /\ armed[j].fired => armed[i].fired
    /\ \A i, j \in DOMAIN notify_ch :
          i < j => armed[notify_ch[i]].deadline <= armed[notify_ch[j]].deadline

\* The three triggers of events handled back to back have all reached the
\* SMR, the Proposal last although its timeout was armed first.
C20_Witness ==
    /\ \E e \in TimerEpochs : BackToBack(e)
    /\ Len(smr) = 3
    /\ smr[1].trigger_type = "PrecommitQC"
    /\ smr[3].trigger_type = "Proposal"

(***************************************************************************)
(* The end of the timer's stream.                                          *)
(***************************************************************************)
\* C21: when the channel carrying SMR events to the timer is dropped, the
\* running timer reports the error and shuts down: once the error
\* "Channel dropped" has been reported the timer's stream is polled no more.
C21_ChannelDroppedShutsDown ==
    tlast.op \in {"dropped", "dropped_again"} => status = "ended"

\* C22: after the timer has received Stop its stream has ended and no
\* timeout trigger is delivered to the SMR any more, whichever loop drives
\* the timer: no call of trigger hands the SMR a trigger on a stream that
\* has yielded None.
C22_NoTriggerAfterStop ==
    status \in {"stopped", "ended"} => ~(tlast.op = "trigger" /\ tlast.out # None)

(***************************************************************************)
(* The default configuration of the timer.                                 *)
(***************************************************************************)
\* C30: the default timer configuration has interval 3000 ms and propose /
\* pre-vote / pre-commit / brake ratios 15 / 10 / 7 / 10: a timer built on
\* the default interval runs on 3000 ms.
C30_DefaultTimeConfig3000 ==
    /\ TimeConfigDefault.propose_ratio = 15
    /\ TimeConfigDefault.pre_vote_ratio = 10
    /\ TimeConfigDefault.pre_commit_ratio = 7
    /\ TimeConfigDefault.brake_ratio = 10
    /\ timer.config.interval = TimeConfigDefault.interval => timer.config.interval = 3000

\* C30 (amended): the default timer configuration has interval 1000 ms and
\* propose / pre-vote / pre-commit / brake ratios 15 / 10 / 7 / 10, in
\* tenths of the interval; a timer built on the default interval arms its
\* propose, pre-vote and pre-commit delays of the first round with the
\* default ratios of it.
C30_DefaultTimeConfig ==
    /\ TimeConfigDefault.interval = 1000
    /\ TimeConfigDefault.propose_ratio = 15
    /\ TimeConfigDefault.pre_vote_ratio = 10
    /\ TimeConfigDefault.pre_commit_ratio = 7
    /\ TimeConfigDefault.brake_ratio = 10
    /\ DOMAIN TimeConfigDefault
          = {"interval", "propose_ratio", "pre_vote_ratio", "pre_commit_ratio", "brake_ratio"}
    /\ (/\ tlast.op = "set_timer"
        /\ tlast.out # None
        /\ tlast.before.config.interval = TimeConfigDefault.interval
        /\ tlast.event[1].round = 0)
       => tlast.out[1] * BaseRatio
            = TimeConfigDefault.interval
              * (CASE tlast.event[1].kind = "NewRoundInfo"  -> TimeConfigDefault.propose_ratio
                   [] tlast.event[1].kind = "PrevoteVote"   -> TimeConfigDefault.pre_vote_ratio
                   [] tlast.event[1].kind = "PrecommitVote" -> TimeConfigDefault.pre_commit_ratio)

\* A timer on the default interval has armed a pre-commit delay.
C30_Witness ==
    /\ tlast.op = "set_timer"
    /\ tlast.out # None
    /\ tlast.before.config.interval = TimeConfigDefault.interval
    /\ tlast.event[1].kind = "PrecommitVote"
    /\ tlast.event[1].round = 0

\* ---------------------------------------------------------------------------
\* Claims on the SMR

\* The blocks the authority n has committed at the height.
CommittedAt(n, height) ==
    {commits[n][i].block_hash :
        i \in {j \in 1..Len(commits[n]) : commits[n][j].height = height}}

C24_CommitHeightsConsecutive ==
    \A n \in Honest : \A i \in 1..Len(commits[n]) :
        i > 1 => commits[n][i].height = commits[n][i - 1].height + 1

\* An authority has committed two heights.
C24_Witness ==
    \E n \in Honest :
        /\ Len(commits[n]) >= 2
        /\ node[n].height = 2
        /\ node[n].step = "Commit"

\* The authority n casts the pre-vote pv in this step although it has
\* pre-committed another block in the round before.
PreVotesAgainstPreCommit(n, pv) ==
    /\ pv \in cast_votes' \ cast_votes
    /\ pv.voter = n
    /\ pv.type = "PreVote"
    /\ ~is_empty_vote(pv.vote)
    /\ \E pc \in cast_votes :
          /\ pc.voter = n
          /\ pc.type = "PreCommit"
          /\ ~is_empty_vote(pc.vote)
          /\ pc.vote.height = pv.vote.height
          /\ pc.vote.round + 1 = pv.vote.round
          /\ pc.vote.block_hash # pv.vote.block_hash

CoveredWeight(type, vote) == WeightOf(Supporters(cast_votes, type, vote) \cup Faulty)

CommittedRoundOne ==
    \A n \in Honest :
        /\ Len(commits[n]) >= 1
        /\ commits[n][1] =
              CommitNew(1, create_block(1, 1),
                        QCNew("PreCommit", VoteNew(1, 1, create_block(1, 1))))

\* Round 0 of height 1 went the way of the silent leader: every correct
\* authority pre-voted empty, and the empty PreVoteQC, the empty PreCommitQC
\* and the ChokeQC of round 0 are formed.
RoundZeroChoked ==
    /\ \A n \in Honest : SignedSmrVote("PreVote", empty_vote(1, 0), n) \in cast_votes
    /\ QCNew("PreVote", empty_vote(1, 0)) \in qcs
    /\ QCNew("PreCommit", empty_vote(1, 0)) \in qcs
    /\ QCNew("Choke", empty_vote(1, 0)) \in qcs

HandlesPreVoteQC(n) ==
    /\ ntimeouts' = ntimeouts
    /\ \E pc \in cast_votes' \ cast_votes : pc.voter = n /\ pc.type = "PreCommit"

\* The PreVoteQC of the round n has moved to is the empty one.
HandledIsEmpty(n) ==
    QCNew("PreVote", empty_vote(node[n].height, node'[n].round)) \in qcs

\* C29: on a PreVoteQC for the empty hash at (H, r) the authority pre-commits
\* empty for (H, r) and keeps its lock as it is; and whenever the lock of an
\* authority changes, either a new height has begun or the new lock is a
\* PreVoteQC for a block that the authority adopts (and pre-commits) in that
\* step.
C29_EmptyPreVoteQCKeepsLock ==
    [][\A n \in Honest :
          /\ (HandlesPreVoteQC(n) /\ HandledIsEmpty(n)) =>
                /\ SignedSmrVote("PreCommit", empty_vote(node[n].height, node'[n].round), n)
                      \in cast_votes' \ cast_votes
                /\ node'[n].lock = node[n].lock
          /\ node'[n].lock # node[n].lock =>
                \/ node'[n].height # node[n].height
                \/ /\ node'[n].lock # None
                   /\ node'[n].lock[1] \in qcs
                   /\ node'[n].lock[1].type = "PreVote"
                   /\ ~is_empty_vote(node'[n].lock[1].vote)
                   /\ SignedSmrVote("PreCommit", node'[n].lock[1].vote, n)
                         \in cast_votes' \ cast_votes]_vars

\* An authority locked in round 0 has handled the empty PreVoteQC of round 1:
\* it has pre-committed empty at round 1 without a timeout (both timeouts
\* were spent on leaving round 0) and still holds the lock of round 0.
C29_Witness ==
    \E n \in Honest :
        /\ node[n].lock # None
        /\ node[n].lock[1].vote.round = 0
        /\ node[n].round = 1
        /\ node[n].step = "PreCommit"
        /\ QCNew("PreVote", empty_vote(1, 1)) \in qcs
        /\ SignedSmrVote("PreCommit", empty_vote(1, 1), n) \in cast_votes
        /\ ntimeouts = 2

\* C31: decoding the encoding of a block gives a block equal to the
\* original, for every block.
C31_BlockRoundTrip == decoded # None => decoded[1] = blk

\* A block that differs from the default one in its hashes, its proof, its
\* transaction and its height, and whose two heights differ, has made the
\* round trip.
C31_Witness ==
    /\ decoded # None
    /\ \A f \in DOMAIN blk \ {"exec_height"} : blk[f] # BlockDefault[f]
    /\ blk.height # blk.exec_height
    /\ Len(blk.receipt_roots) = 2
    /\ Len(encoded[1]) > Len(encode(BlockDefault))

\* The largest cumulative weight tracked at a round of height h for the hash
\* a CumWeight names.
NamedWeight(cab, h, w) ==
    MaxOf({CumAt(cab, h, r2, w.vote_type, w.block_hash) : r2 \in Rounds})

(***************************************************************************)
(* C32: when the hash of an inserted pre-vote or pre-commit reaches the    *)
(* cumulative weight of the maximum reported so far for that type, which   *)
(* names another hash, the insert returns that maximum unchanged, and the  *)
(* hash it names holds that weight; the reported maximum is replaced only  *)
(* by one of a strictly larger weight; and the weight of a returned        *)
(* maximum is the weight tracked for the hash it names, which is never     *)
(* below the largest weight tracked at the height for its type.            *)
(***************************************************************************)
C32_TieKeepsFirst ==
    VoteInserted =>
        LET h == last.height
            r == last.round
            d == last.data[1]
            t == TypeOfKind(d.kind)
            w == last.result.value[1]
            old == HeightMaxOf(prev, h, t)
            new == HeightMaxOf(cabinet, h, t)
            after == CumAt(cabinet, h, r, t, KeyOf(d))
        IN  /\ (t # "Choke" /\ old.block_hash # None /\ old.block_hash # KeyOf(d)
                  /\ after = old.cum_weight) =>
                  /\ w = old
                  /\ NamedWeight(cabinet, h, w) = after
            /\ new # old => new.cum_weight > old.cum_weight
            /\ w.block_hash # None =>
                  /\ NamedWeight(cabinet, h, w) = w.cum_weight
                  /\ NamedWeight(cabinet, h, w) >= MaxCumAtHeight(cabinet, h, w.vote_type)

(***************************************************************************)
(* What update_max_vote_weight does keep: in a tie the insert returns the  *)
(* maximum reported before, unchanged; the reported maximum is replaced    *)
(* only by one of a strictly larger weight; and as long as no u32 sum of   *)
(* the height has wrapped, the hash a returned maximum names holds the     *)
(* returned weight, the largest tracked at the height for its type.        *)
(***************************************************************************)
TieKeepsReported ==
    VoteInserted =>
        LET h == last.height
            r == last.round
            d == last.data[1]
            t == TypeOfKind(d.kind)
            w == last.result.value[1]
            old == HeightMaxOf(prev, h, t)
            new == HeightMaxOf(cabinet, h, t)
            after == CumAt(cabinet, h, r, t, KeyOf(d))
        IN  /\ (t # "Choke" /\ old.block_hash # None /\ old.block_hash # KeyOf(d)
                  /\ after = old.cum_weight) =>
                  /\ w = old
                  /\ NoWrapAt(cabinet, h, t) => NamedWeight(cabinet, h, w) = after
            /\ new # old => new.cum_weight > old.cum_weight
            /\ (w.block_hash # None /\ NoWrapAt(cabinet, h, w.vote_type)) =>
                  /\ NamedWeight(cabinet, h, w) = w.cum_weight
                  /\ NamedWeight(cabinet, h, w) >= MaxCumAtHeight(cabinet, h, w.vote_type)

\* A tie between two hashes of positive weight was answered with the hash
\* that reached the weight first.
TieKeepsReported_Reached ==
    /\ VoteInserted
    /\ last.data[1].kind = "SignedPreVote"
    /\ LET h == last.height
           w == last.result.value[1]
       IN  /\ w.cum_weight > 0
           /\ w = HeightMaxOf(prev, h, "PreVote")
           /\ w.block_hash # KeyOf(last.data[1])
           /\ CumAt(cabinet, h, last.round, "PreVote", KeyOf(last.data[1])) = w.cum_weight
           /\ NamedWeight(cabinet, h, w) = w.cum_weight

(***************************************************************************)
(* C33 as claimed: the CumWeight a successful vote or choke insert returns *)
(* has the vote type of the inserted message and is the maximum the drawer *)
(* records for that type, whatever the message's weight (0 included) and   *)
(* also for the first message of the type at the round.                    *)
(***************************************************************************)
C33_TypeOfInserted ==
    VoteInserted =>
        LET h == last.height
            t == TypeOfKind(last.data[1].kind)
            w == last.result.value[1]
        IN  /\ w.vote_type = t
            /\ w = HeightMaxOf(cabinet, h, t)

(***************************************************************************)
(* What holds of the code: whenever the maximum the grid of the insert     *)
(* records for the inserted type is positive, the returned CumWeight has   *)
(* the inserted message's vote type and is the drawer's maximum for it.    *)
(***************************************************************************)
TypeOfInsertedWhenPositive ==
    VoteInserted =>
        LET h == last.height
            r == last.round
            t == TypeOfKind(last.data[1].kind)
            w == last.result.value[1]
        IN  GridMaxAt(cabinet, h, r, t).cum_weight > 0 =>
                /\ w.vote_type = t
                /\ w = HeightMaxOf(cabinet, h, t)

(***************************************************************************)
(* C34 as claimed: every cumulative weight the cabinet tracks, per         *)
(* (height, round, vote type, hash) for the votes and per (height, round)  *)
(* for the chokes, equals the sum of the vote weights of the messages      *)
(* stored for it, as a mathematical integer: no sum wraps around 32 bits.  *)
(***************************************************************************)
C34_WeightsAreSums ==
    \A h \in Heights, r \in Rounds, t \in {"PreVote", "PreCommit", "Choke"} :
        \A key \in HashKeys(t) :
            CumAt(cabinet, h, r, t, key) = SumStored(cabinet, h, r, t, key)

(***************************************************************************)
(* What holds of the code: a tracked weight equals the sum of the stored   *)
(* vote weights as long as that sum has not passed u32::MAX.               *)
(***************************************************************************)
WeightsAreSumsUnlessWrapped ==
    \A h \in Heights, r \in Rounds, t \in {"PreVote", "PreCommit", "Choke"} :
        \A key \in HashKeys(t) :
            SumStored(cabinet, h, r, t, key) <= MaxWeight =>
                CumAt(cabinet, h, r, t, key) = SumStored(cabinet, h, r, t, key)

\* The elements of the by-hash lists of a grid.
InSets(sets) ==
    {sets[p[1]][p[2]] : p \in {q \in (DOMAIN sets) \X (1..NumVoters) : q[2] <= Len(sets[q[1]])}}

\* The by-hash lists and the by-voter map of a grid for a vote type.
SetsOf(grid, type) == IF type = "PreVote" THEN grid.pre_vote_sets ELSE grid.pre_commit_sets

\* The by-hash getter of a vote type.
GetByHash(cab, height, round, type, hash) ==
    IF type = "PreVote"
    THEN get_signed_pre_votes_by_hash(cab, height, round, hash)
    ELSE get_signed_pre_commits_by_hash(cab, height, round, hash)

(***************************************************************************)
(* C35: in every grid and for pre-votes and pre-commits alike, each voter  *)
(* occurs in the by-hash list of at most one hash and at most once; the    *)
(* messages of the by-hash lists together are the messages stored per      *)
(* voter; and the by-hash getter of a hash returns exactly the accepted    *)
(* votes for that hash: None while there is none, otherwise one entry per  *)
(* stored vote with that hash, a successful insert appending its message   *)
(* to the list of its own hash and leaving the lists of other hashes.      *)
(***************************************************************************)
C35_ByHashPartition ==
    /\ \A h \in Heights, r \in Rounds, t \in {"PreVote", "PreCommit"} :
          LET g == GridAt(cabinet, h, r)
          IN  g # None =>
                LET sets   == SetsOf(g[1], t)
                    stored == StoredOf(g[1], t)
                IN  /\ \A v \in Voters : Occurrences(sets, v) <= 1
                    /\ InSets(sets) = {stored[v] : v \in DOMAIN stored}
                    /\ \A x \in Hashes :
                          LET accepted == {stored[v] : v \in {u \in DOMAIN stored :
                                                                stored[u].block_hash = x}}
                              got == GetByHash(cabinet, h, r, t, x)
                          IN  IF accepted = {}
                              THEN got = None
                              ELSE /\ got # None
                                   /\ Len(got[1]) = Cardinality(accepted)
                                   /\ {got[1][i] : i \in 1..Len(got[1])} = accepted
    /\ (VoteInserted /\ last.data[1].kind \in SignedVoteKinds) =>
          LET h == last.height
              r == last.round
              d == last.data[1]
              t == TypeOfKind(d.kind)
              before == GetByHash(prev, h, r, t, d.msg.block_hash)
          IN  /\ GetByHash(cabinet, h, r, t, d.msg.block_hash)
                    = Some(Append(IF before = None THEN <<>> ELSE before[1], d.msg))
              /\ \A x \in Hashes \ {d.msg.block_hash} :
                    GetByHash(cabinet, h, r, t, x) = GetByHash(prev, h, r, t, x)

\* The second pre-commit for one hash at one (height, round) was accepted:
\* the getter returns both voters' messages, the first accepted first.
C35_Witness ==
    /\ VoteInserted
    /\ last.data[1].kind = "SignedPreCommit"
    /\ LET got == get_signed_pre_commits_by_hash(cabinet, last.height, last.round,
                                                 last.data[1].msg.block_hash)
       IN  /\ got # None
           /\ Len(got[1]) = 2
           /\ got[1][1].voter # got[1][2].voter
           /\ got[1][2] = last.data[1].msg

\* The fields of a grid that make up the slot of a capsule kind: its stored
\* messages and, for the votes and chokes, its tracked weights.
SlotFields(kind) ==
    CASE kind = "SignedProposal"  -> {"signed_proposal"}
      [] kind = "SignedPreVote"   -> {"signed_pre_votes", "pre_vote_sets",
                                      "pre_vote_vote_weights", "pre_vote_max_vote_weight"}
      [] kind = "SignedPreCommit" -> {"signed_pre_commits", "pre_commit_sets",
                                      "pre_commit_vote_weights", "pre_commit_max_vote_weight"}
      [] kind = "SignedChoke"     -> {"signed_chokes", "choke_vote_weight"}
      [] kind = "PreVoteQC"       -> {"pre_vote_qc"}
      [] kind = "PreCommitQC"     -> {"pre_commit_qc"}
      [] kind = "ChokeQC"         -> {"choke_qc"}

\* The grid of (height, round), Grid::default() where there is none.
GridOrDefault(cab, height, round) ==
    LET g == GridAt(cab, height, round) IN IF g = None THEN GridDefault ELSE g[1]

(***************************************************************************)
(* C36: a successful insert of a message at (h, r) changes, of everything  *)
(* stored, only the slot of the message's own type at (h, r): the other    *)
(* fields of that grid, the grids of the other rounds of h, the drawers of *)
(* the other heights and the drawer's maxima of the other vote types are   *)
(* the same before and after; and a pre-commit or choke of a voter with no *)
(* pre-commit (choke) stored at (h, r) is never rejected as AlreadyExists  *)
(* or InsertDiff, whether or not the voter's pre-vote is stored there.     *)
(***************************************************************************)
C36_OnlyOwnSlot ==
    /\ (Inserted /\ IsOk(last.result)) =>
          LET h == last.height
              r == last.round
              d == last.data[1]
          IN  /\ \A f \in (DOMAIN GridDefault) \ SlotFields(d.kind) :
                    GridOrDefault(cabinet, h, r)[f] = GridOrDefault(prev, h, r)[f]
              /\ \A r2 \in Rounds \ {r} : GridAt(cabinet, h, r2) = GridAt(prev, h, r2)
              /\ \A h2 \in Heights \ {h} :
                    /\ h2 \in DOMAIN cabinet <=> h2 \in DOMAIN prev
                    /\ h2 \in DOMAIN prev => cabinet[h2] = prev[h2]
              /\ \A t \in VoteTypes :
                    (~IsVoteKind(d.kind) \/ t # TypeOfKind(d.kind)) =>
                        HeightMaxOf(cabinet, h, t) = HeightMaxOf(prev, h, t)
    /\ (Inserted /\ last.data[1].kind \in {"SignedPreCommit", "SignedChoke"}) =>
          LET h == last.height
              r == last.round
              d == last.data[1]
          IN  StoredSlot(prev, h, r, d) = None =>
                  last.result.tag \notin {"AlreadyExists", "InsertDiff"}

\* A voter whose pre-vote is stored at (h, r) had a pre-commit accepted at
\* the same (h, r): the pre-vote slot is as before, the pre-commit is stored.
C36_Witness ==
    /\ Inserted /\ IsOk(last.result)
    /\ last.data[1].kind = "SignedPreCommit"
    /\ LET h == last.height
           r == last.round
           v == last.data[1].msg.voter
       IN  /\ v \in DOMAIN GridOrDefault(prev, h, r).signed_pre_votes
           /\ GridOrDefault(cabinet, h, r).signed_pre_votes
                = GridOrDefault(prev, h, r).signed_pre_votes
           /\ GridOrDefault(cabinet, h, r).signed_pre_commits[v] = last.data[1].msg

\* The signed proposal, votes and chokes retrievable at a grid.
Retrievable(grid) ==
    {grid.signed_pre_votes[v] : v \in DOMAIN grid.signed_pre_votes}
    \cup {grid.signed_pre_commits[v] : v \in DOMAIN grid.signed_pre_commits}
    \cup {grid.signed_chokes[v] : v \in DOMAIN grid.signed_chokes}
    \cup (IF grid.signed_proposal = None THEN {} ELSE {grid.signed_proposal[1]})

(***************************************************************************)
(* C37 as claimed: every proposal, vote and choke retrievable at (h, r)    *)
(* carries height h and round r in its own fields; the CumWeight returned  *)
(* by an insert at (h, r) that sets a new maximum has round r; and an      *)
(* insert of a message whose own height or round differs from the (h, r)   *)
(* it is inserted under is not stored.                                     *)
(***************************************************************************)
C37_StoredUnderOwnCoordinates ==
    /\ \A h \in Heights, r \in Rounds :
          LET g == GridAt(cabinet, h, r)
          IN  g # None => \A m \in Retrievable(g[1]) : m.height = h /\ m.round = r
    /\ VoteInserted =>
          LET h == last.height
              t == TypeOfKind(last.data[1].kind)
              w == last.result.value[1]
          IN  (w.vote_type = t /\ w # HeightMaxOf(prev, h, t)) => w.round = last.round
    /\ Inserted =>
          LET d == last.data[1]
          IN  (d.msg.height # last.height \/ d.msg.round # last.round) =>
                  /\ ~IsOk(last.result)
                  /\ cabinet = prev

(***************************************************************************)
(* What holds of the code: the CumWeight of a new maximum carries the      *)
(* round field of the inserted vote or choke, and a message is stored in   *)
(* the grid of the (h, r) given to insert whatever its own fields say.     *)
(***************************************************************************)
StoredUnderGivenCoordinates ==
    /\ VoteInserted =>
          LET h == last.height
              t == TypeOfKind(last.data[1].kind)
              w == last.result.value[1]
          IN  (w.vote_type = t /\ w # HeightMaxOf(prev, h, t)) =>
                  w.round = last.data[1].msg.round
    /\ (Inserted /\ IsOk(last.result)) =>
          StoredSlot(cabinet, last.height, last.round, last.data[1]) = Some(last.data[1].msg)

\* The last call of Timer::trigger handed the SMR a trigger.
Forwarded == tlast.out # None /\ Len(smr) = tlast.nsmr + 1

(***************************************************************************)
(* C38: the height the timer records (epoch_id) never decreases; an        *)
(* expired propose timeout is forwarded to the SMR exactly when its height *)
(* is at least the recorded height and its round at least the recorded     *)
(* round, which is the round of the latest NewRoundInfo received; an       *)
(* expired pre-vote or pre-commit timeout is forwarded exactly when its    *)
(* height is at least the recorded height, whatever its round; and a       *)
(* PrevoteVote or PrecommitVote event leaves the recorded height and round *)
(* as they are.                                                            *)
(***************************************************************************)
C38_ForwardingRule ==
    /\ timer.epoch_id >= tlast.before.epoch_id
    /\ (TimerSet /\ tlast.event[1].kind = "NewRoundInfo") =>
          timer.round = tlast.event[1].round
    /\ (TimerSet /\ tlast.event[1].kind \in {"PrevoteVote", "PrecommitVote"}) =>
          /\ timer.epoch_id = tlast.before.epoch_id
          /\ timer.round = tlast.before.round
    /\ ~TimerSet =>
          /\ timer.epoch_id = tlast.before.epoch_id
          /\ timer.round = tlast.before.round
    /\ Triggered =>
          LET event == tlast.event[1]
              tm == tlast.before
          IN  /\ ~Forwarded => tlast.out = None /\ Len(smr) = tlast.nsmr
              /\ event.kind = "NewRoundInfo" =>
                    (Forwarded <=> (event.epoch_id >= tm.epoch_id /\ event.round >= tm.round))
              /\ event.kind \in {"PrevoteVote", "PrecommitVote"} =>
                    (Forwarded <=> event.epoch_id >= tm.epoch_id)

\* A pre-vote timeout of the recorded height, which is above the initial
\* one, and of a round below the recorded round was forwarded.
C38_Witness ==
    /\ Triggered
    /\ Forwarded
    /\ tlast.event[1].kind = "PrevoteVote"
    /\ tlast.event[1].epoch_id = tlast.before.epoch_id
    /\ tlast.event[1].round < tlast.before.round
    /\ tlast.before.epoch_id > INIT_EPOCH_ID

(***************************************************************************)
(* C39: a Commit event handed to the timer arms no delay and leaves the    *)
(* recorded height and round as they are, and nothing reaches the SMR on   *)
(* its account: no delay is ever armed for a Commit event, Timer::trigger  *)
(* is never called with one, and every trigger the SMR has received stems  *)
(* from a NewRoundInfo, PrevoteVote or PrecommitVote event.                *)
(***************************************************************************)
C39_CommitArmsNothing ==
    /\ (TimerSet /\ tlast.event[1].kind = "Commit") =>
          /\ Len(armed) = tlast.narmed
          /\ tlast.out = None
          /\ timer = tlast.before
          /\ Len(smr) = tlast.nsmr
    /\ \A i \in DOMAIN armed : armed[i].info.kind \in PhaseKinds
    /\ Triggered => tlast.event[1].kind \in PhaseKinds
    /\ Len(smr) <= Cardinality({i \in DOMAIN armed : armed[i].fired})

\* A Commit event was handled by a timer that had recorded a later height
\* and round and held a delay not yet expired, which stayed the only one.
C39_Witness ==
    /\ TimerSet
    /\ tlast.event[1].kind = "Commit"
    /\ tlast.before.epoch_id > INIT_EPOCH_ID
    /\ tlast.before.round > INIT_ROUND
    /\ Len(armed) = 1
    /\ ~armed[1].fired

====
